---------------------------- MODULE Spec2Model ----------------------------
(***************************************************************************)
(* Logical checksums of the postgres_checksums fork: column, tuple, index *)
(* entry, table/index aggregate and database aggregate.                   *)
(*                                                                         *)
(* A uint32 is modelled at its full width as the set of the positions of  *)
(* its 1 bits (a subset of 0..31), a uint64 as a subset of 0..63: XOR is  *)
(* the symmetric difference, AND the intersection, OR the union, and a    *)
(* left shift moves every position up and drops what leaves the word.     *)
(***************************************************************************)
EXTENDS Integers, Sequences, FiniteSets, Bags, TLC

VARIABLES
    mixMemo,    \* what pg_checksum_data has answered so far: key -> uint32
    call,       \* the last entry-level call: its inputs and what it returned
    req,        \* the aggregate a session asks for, again and again
    scan,       \* the aggregate scan in progress
    last,       \* what the last completed scan returned
    prev,       \* what the completed scan before it returned
    catalog,    \* pg_class of the session's database and the storage behind it
    writes      \* what other sessions have written since the session began

vars == <<mixMemo, call, req, scan, last, prev, catalog, writes>>

---------------------------------------------------------------------------
(* Machine words *)

Word32 == 0 .. 31

RECURSIVE BitsFrom(_, _)
BitsFrom(n, k) ==
    IF n = 0 THEN {}
    ELSE (IF n % 2 = 1 THEN {k} ELSE {}) \cup BitsFrom(n \div 2, k + 1)

\* the uint32 a C int converts to (two's complement for a negative int)
U32(n) == IF n >= 0 THEN BitsFrom(n, 0) \cap Word32
          ELSE Word32 \ BitsFrom(-n - 1, 0)

Xor(a, b) == (a \ b) \cup (b \ a)

Word64 == 0 .. 63

Shl64(a, k) == {i + k : i \in a} \cap Word64

Shl32(a, k) == {i + k : i \in a} \cap Word32

Zero32 == {}

CHECKSUM_NULL == Word32

\* the mask 0xFFFFFFFE of the sentinel remaps
ClearLowBit(a) == a \ {0}

---------------------------------------------------------------------------
(* The byte mixer pg_checksum_data(data, len, init_value).  Its body is   *)
(* not part of the sources at hand; by its contract it is a pure,         *)
(* deterministic function of the bytes of the span and of the seed.  A    *)
(* single call lets it answer any of MixOutcomes.  A scan, which calls it *)
(* many times, keeps its answers (mixMemo): a new span hashes to any of   *)
(* ScanMixOutcomes, a span asked again gets the answer it got before.     *)

MixKey(bytes, len, seed) == <<bytes, len, seed>>

\* answers that exercise the sentinel, its neighbour and ordinary values
MixOutcomes ==
    {CHECKSUM_NULL, ClearLowBit(CHECKSUM_NULL), CHECKSUM_NULL \ {16},
     U32(101), U32(0)}

ScanMixOutcomes == {U32(7), CHECKSUM_NULL}

MixAnswers(memo, key) ==
    IF \E e \in memo : e.key = key
    THEN {e.answer : e \in {x \in memo : x.key = key}}
    ELSE ScanMixOutcomes

MixRemember(memo, key, m) == memo \cup {[key |-> key, answer |-> m]}

---------------------------------------------------------------------------
(* Column checksum: checksum_column.c *)

\* the pg_type rows SearchSysCache1(TYPEOID) can return (typbyval, typlen):
\* int4, text, cstring, tid; any other oid fails the lookup
pg_type ==
       (23   :> [typbyval |-> TRUE,  typlen |-> 4])
    @@ (25   :> [typbyval |-> FALSE, typlen |-> -1])
    @@ (2275 :> [typbyval |-> FALSE, typlen |-> -2])
    @@ (27   :> [typbyval |-> FALSE, typlen |-> 6])

TypeOids == DOMAIN pg_type \cup {0}

\* A Datum: the 8 bytes of the word itself (memory order, little endian)
\* and, when the word is a pointer, the bytes it points to.  va names the
\* stored form of a varlena ("short": 1-byte header, "long": 4-byte
\* header, "compressed" and "external": toasted), "raw" anything else.
NullPointer == <<0, 0, 0, 0, 0, 0, 0, 0>>

Pointer == <<8, 16, 32, 64, 0, 0, 0, 0>>

Datums(typid) ==
    IF typid = 23 THEN
        { [word |-> <<42, 0, 0, 0, 0, 0, 0, 0>>, mem |-> <<>>, va |-> "raw"],
          [word |-> NullPointer, mem |-> <<>>, va |-> "raw"] }
    ELSE IF typid = 25 THEN
        { [word |-> Pointer, mem |-> <<116>>, va |-> "short"],
          [word |-> Pointer, mem |-> <<116>>, va |-> "compressed"] }
    ELSE IF typid = 2275 THEN
        { [word |-> Pointer, mem |-> <<116, 0>>, va |-> "raw"],
          [word |-> Pointer, mem |-> <<0>>, va |-> "raw"] }
    ELSE IF typid = 27 THEN
        { [word |-> Pointer, mem |-> <<0, 0, 1, 0, 2, 0>>, va |-> "raw"],
          [word |-> NullPointer, mem |-> <<>>, va |-> "raw"] }
    ELSE
        { [word |-> NullPointer, mem |-> <<>>, va |-> "raw"] }

AttNums == {1, 2}

\* PG_DETOAST_DATUM and VARSIZE_ANY (lines 114-118): pg_detoast_datum
\* expands every extended form, the short 1-byte header included, to a
\* plain varlena with a 4-byte length word; the length word counts itself.
Varlena4B(payload) == <<4 * (Len(payload) + 4), 0, 0, 0>> \o payload

Detoast(value) == Varlena4B(value.mem)

\* strlen: the bytes before the first zero byte
RECURSIVE CString(_)
CString(mem) ==
    IF mem = <<>> \/ Head(mem) = 0 THEN <<>>
    ELSE <<Head(mem)>> \o CString(Tail(mem))

\* the span the four storage classes hand to the mixer (lines 93-148)
ColumnSpan(value, typeForm) ==
    IF typeForm.typbyval /\ typeForm.typlen > 0 THEN
        [error |-> "none", bytes |-> SubSeq(value.word, 1, typeForm.typlen),
         len |-> typeForm.typlen]
    ELSE IF typeForm.typlen = -1 THEN
        [error |-> "none", bytes |-> Detoast(value),
         len |-> Len(Detoast(value))]
    ELSE IF typeForm.typlen = -2 THEN
        [error |-> "none", bytes |-> CString(value.mem),
         len |-> Len(CString(value.mem))]
    ELSE IF value.word = NullPointer THEN
        [error |-> "invalid pointer for fixed-length reference type",
         bytes |-> <<>>, len |-> 0]
    ELSE
        [error |-> "none", bytes |-> SubSeq(value.mem, 1, typeForm.typlen),
         len |-> typeForm.typlen]

\* a remap that forgets the sentinel check
ColumnRemap_skipped(checksum, attnum, typid) == checksum

\* lines 158-161
ColumnRemap(checksum, attnum, typid) ==
    IF checksum = CHECKSUM_NULL
    THEN ClearLowBit(Xor(Xor(CHECKSUM_NULL, U32(attnum)), U32(typid)))
    ELSE checksum

\* what a column call leaves behind: whether it looked the type up, the
\* error it raised, the span it mixed, the mixer's answer and the result
ColumnResult(isnull, typid, attnum, lookup, error, span, raw, ret) ==
    [fn |-> "pg_column_checksum_internal",
     isnull |-> isnull, typid |-> typid, attnum |-> attnum,
     lookup |-> lookup, error |-> error, mixed |-> span # <<>>,
     span |-> span, raw |-> raw, ret |-> ret]

\* the null check placed after the type lookup
pg_column_checksum_internal_lookup_first(value, isnull, typid, typmod, attnum, m) ==
    IF typid \notin DOMAIN pg_type THEN
        ColumnResult(isnull, typid, attnum, TRUE,
                     "cache lookup failed for type", <<>>, Zero32, Zero32)
    ELSE
        ColumnResult(isnull, typid, attnum, TRUE, "none", <<>>, Zero32,
                     IF isnull THEN CHECKSUM_NULL ELSE m)

\* pg_column_checksum_internal (lines 65-164), m being the answer of
\* pg_checksum_data for the span the call hands it
pg_column_checksum_internal(value, isnull, typid, typmod, attnum, m) ==
    IF isnull THEN
        ColumnResult(isnull, typid, attnum, FALSE, "none", <<>>, Zero32,
                     CHECKSUM_NULL)
    ELSE IF typid \notin DOMAIN pg_type THEN
        ColumnResult(isnull, typid, attnum, TRUE,
                     "cache lookup failed for type", <<>>, Zero32, Zero32)
    ELSE
        LET span == ColumnSpan(value, pg_type[typid])
        IN  IF span.error # "none" THEN
                ColumnResult(isnull, typid, attnum, TRUE, span.error, <<>>,
                             Zero32, Zero32)
            ELSE
                ColumnResult(isnull, typid, attnum, TRUE, "none",
                             MixKey(span.bytes, span.len, U32(attnum)), m,
                             ColumnRemap(m, attnum, typid))

---------------------------------------------------------------------------
(* Pages and line pointers (storage/bufpage.h, storage/itemid.h as the    *)
(* checksum code uses them).  A page is the sequence of its line          *)
(* pointers; PageGetMaxOffsetNumber is its length, FirstOffsetNumber 1.   *)

PageGetMaxOffsetNumber(page) == Len(page)

\* a test that takes every line pointer for a used one
ItemIdIsUsed_always(lp) == TRUE

ItemIdIsUsed(lp) == lp.lp_flags # "LP_UNUSED"

ItemIdIsDead(lp) == lp.lp_flags = "LP_DEAD"

\* the four bytes of a 32-bit field, low byte first
LE4(n) == <<n % 256, (n \div 256) % 256, (n \div 65536) % 256,
            (n \div 16777216) % 256>>

LE2(n) == <<n % 256, (n \div 256) % 256>>

\* the 6 bytes of an ItemPointerData: block number high half, low half,
\* offset
TidBytes(tid) == LE2(tid.blk \div 65536) \o LE2(tid.blk % 65536) \o LE2(tid.off)

---------------------------------------------------------------------------
(* Tuple checksum: checksum_tuple.c *)

\* the bytes of a heap tuple: a 24-byte header (t_xmin, t_xmax, t_cid,
\* t_ctid, t_infomask2, t_infomask, t_hoff) and the column data
HeapTupleImage(tuple) ==
    LE4(tuple.t_xmin) \o LE4(tuple.t_xmax) \o LE4(0) \o TidBytes(tuple.t_ctid)
    \o LE2(tuple.natts) \o LE2(tuple.t_infomask) \o <<tuple.t_hoff, 0>>
    \o tuple.data

HeapTuple(xmin, xmax, data) ==
    [t_xmin |-> xmin, t_xmax |-> xmax, t_ctid |-> [blk |-> 0, off |-> 1],
     natts |-> 1, t_infomask |-> 0, t_hoff |-> 24, data |-> data]

NormalItem(tuple) ==
    [lp_flags |-> "LP_NORMAL", lp_len |-> tuple.t_hoff + Len(tuple.data),
     tuple |-> tuple]

\* a line pointer without storage (unused, or dead after pruning): what
\* PageGetItem yields for it is whatever lies at the page's start
NoStorageItem(flags) ==
    [lp_flags |-> flags, lp_len |-> 0, tuple |-> HeapTuple(0, 0, <<>>)]

\* (xmin, xmax) pairs: a live row, a deleted row, a later version deleted
\* by a later transaction, a row inserted and deleted by one transaction
Stamps == {<<100, 0>>, <<100, 101>>, <<102, 103>>, <<100, 100>>}

HeapItems ==
    {NormalItem(HeapTuple(st[1], st[2], <<1, 0, 0, 0>>)) : st \in Stamps}
    \cup {NormalItem(HeapTuple(100, 0, <<>>))}
    \cup {NoStorageItem("LP_UNUSED"), NoStorageItem("LP_DEAD")}

MaxOffset == 2

HeapPages == UNION {[1 .. n -> HeapItems] : n \in 0 .. MaxOffset}

\* block numbers: the first blocks, and one beyond 16 bits
BlockNumbers == {0, 1, 65536}

\* line 116
LocationHash(blkno, offnum) == Shl32(U32(blkno), 16) \cup U32(offnum)

\* a remap that forgets the sentinel check
TupleRemap_skipped(checksum, location_hash) == checksum

\* lines 145-148
TupleRemap(checksum, location_hash) ==
    IF checksum = CHECKSUM_NULL
    THEN ClearLowBit(Xor(CHECKSUM_NULL, location_hash))
    ELSE checksum

\* lines 116-150: from the mixer's answer to the result
TupleFinish(m, location_hash, include_header, xmin, xmax) ==
    LET located == Xor(m, location_hash)
        versioned == IF include_header THEN located
                     ELSE Xor(located, Xor(U32(xmin), U32(xmax)))
    IN  TupleRemap(versioned, location_hash)

TupleResult(page, offnum, blkno, include_header, why, span, raw, ret) ==
    [fn |-> "pg_tuple_checksum", page |-> page,
     offnum |-> offnum, blkno |-> blkno, include_header |-> include_header,
     why |-> why, read |-> why \notin {"range", "unused"},
     mixed |-> span # <<>>, span |-> span, raw |-> raw, ret |-> ret]

\* the span handed to the mixer (lines 92-108): its bytes and its length,
\* a uint32.  A header length beyond the item's length wraps the length
\* around; the bytes are then the item's up to its end.
TupleSpan(lp, include_header) ==
    LET image == HeapTupleImage(lp.tuple)
    IN  IF include_header
        THEN [bytes |-> SubSeq(image, 1, lp.lp_len), len |-> U32(lp.lp_len)]
        ELSE [bytes |-> SubSeq(image, lp.tuple.t_hoff + 1, lp.lp_len),
              len |-> U32(lp.lp_len - lp.tuple.t_hoff)]

\* line 77
OffsetInRange(page, offnum) ==
    ~(offnum < 1 \/ offnum > PageGetMaxOffsetNumber(page))

\* pg_tuple_checksum (lines 66-151), m being the answer of
\* pg_checksum_data for the span the call hands it
pg_tuple_checksum(page, offnum, blkno, include_header, m) ==
    IF ~OffsetInRange(page, offnum) THEN
        TupleResult(page, offnum, blkno, include_header, "range", <<>>,
                    Zero32, Zero32)
    ELSE IF ~ItemIdIsUsed(page[offnum]) THEN
        TupleResult(page, offnum, blkno, include_header, "unused", <<>>,
                    Zero32, Zero32)
    ELSE
        LET lp == page[offnum]
            span == TupleSpan(lp, include_header)
            location_hash == LocationHash(blkno, offnum)
        IN  IF ~include_header /\ span.len = Zero32 THEN
                TupleResult(page, offnum, blkno, include_header, "empty",
                            <<>>, Zero32, Zero32)
            ELSE
                TupleResult(page, offnum, blkno, include_header, "computed",
                            MixKey(span.bytes, span.len, location_hash), m,
                            TupleFinish(m, location_hash, include_header,
                                        lp.tuple.t_xmin, lp.tuple.t_xmax))

---------------------------------------------------------------------------
(* Index entry checksums: checksum_index.c and checksum_tuple.c *)

BTREE_AM_OID == 403

\* the bytes of an index tuple: t_tid, t_info (the size in its low 13
\* bits) and the key data
IndexTupleImage(itup) == TidBytes(itup.t_tid) \o LE2(itup.t_info) \o itup.key

IndexTupleSize(itup) == itup.t_info % 8192

IndexTuple(blk, off, key) ==
    [t_tid |-> [blk |-> blk, off |-> off], t_info |-> 8 + Len(key), key |-> key]

IndexTuples ==
    {IndexTuple(0, 1, <<100, 0, 0, 0>>), IndexTuple(0, 2, <<100, 0, 0, 0>>),
     IndexTuple(1, 1, <<7, 0, 0, 0>>)}

\* tuple descriptors: of a composite type, and one whose tdtypeid is 403
TupleDescs == {[tdtypeid |-> 0], [tdtypeid |-> BTREE_AM_OID]}

IndexItem(flags, itup) ==
    [lp_flags |-> flags, lp_len |-> IndexTupleSize(itup), itup |-> itup]

IndexItems ==
    {IndexItem("LP_NORMAL", t) : t \in IndexTuples}
    \cup {IndexItem("LP_DEAD", IndexTuple(0, 1, <<100, 0, 0, 0>>)),
          [lp_flags |-> "LP_UNUSED", lp_len |-> 0,
           itup |-> IndexTuple(0, 0, <<>>)]}

IndexPages == UNION {[1 .. n -> IndexItems] : n \in 0 .. MaxOffset}

\* a remap that forgets the sentinel check
IndexTupleRemap_skipped(checksum, attno, len) == checksum

\* checksum_index.c lines 93-96
IndexTupleRemap(checksum, attno, len) ==
    IF checksum = CHECKSUM_NULL
    THEN ClearLowBit(Xor(Xor(CHECKSUM_NULL, U32(attno)), U32(len)))
    ELSE checksum

\* checksum_index.c lines 82-87
HeapTidBinding(itup, indexTupDesc, checksum) ==
    IF indexTupDesc.tdtypeid = BTREE_AM_OID
    THEN Xor(Xor(checksum, U32(itup.t_tid.blk)),
             Shl32(U32(itup.t_tid.off), 16))
    ELSE checksum

\* pg_index_tuple_checksum (checksum_index.c lines 63-99)
pg_index_tuple_checksum(itup, indexTupDesc, attno, m) ==
    LET len == IndexTupleSize(itup)
    IN  [fn |-> "pg_index_tuple_checksum",
         itup |-> itup, tdtypeid |-> indexTupDesc.tdtypeid, attno |-> attno,
         mixed |-> TRUE,
         span |-> MixKey(SubSeq(IndexTupleImage(itup), 1, len), U32(len),
                         U32(attno)),
         raw |-> m,
         ret |-> IndexTupleRemap(HeapTidBinding(itup, indexTupDesc, m),
                                 attno, len)]

\* a remap that forgets the sentinel check
IndexRemap_skipped(checksum, offnum) == checksum

\* checksum_tuple.c lines 207-210
IndexRemap(checksum, offnum) ==
    IF checksum = CHECKSUM_NULL
    THEN ClearLowBit(Xor(CHECKSUM_NULL, U32(offnum)))
    ELSE checksum

IndexResult(page, offnum, why, span, raw, ret) ==
    [fn |-> "pg_index_checksum", page |-> page, offnum |-> offnum,
     why |-> why, mixed |-> span # <<>>, span |-> span,
     raw |-> raw, ret |-> ret]

\* pg_index_checksum (checksum_tuple.c lines 174-213)
pg_index_checksum(page, offnum, m) ==
    IF ~OffsetInRange(page, offnum) THEN
        IndexResult(page, offnum, "range", <<>>, Zero32, Zero32)
    ELSE IF ~ItemIdIsUsed(page[offnum]) \/ ItemIdIsDead(page[offnum]) THEN
        IndexResult(page, offnum, "skipped", <<>>, Zero32, Zero32)
    ELSE
        LET lp == page[offnum]
        IN  IndexResult(page, offnum, "computed",
                        MixKey(SubSeq(IndexTupleImage(lp.itup), 1, lp.lp_len),
                               U32(lp.lp_len), U32(offnum)),
                        m, IndexRemap(Xor(m, U32(offnum)), offnum))

---------------------------------------------------------------------------
(* Aggregates: checksumfuncs.c (pg_checksum_table, pg_checksum_index),    *)
(* checksum_index.c (pg_index_page_checksum) and checksum_database.c      *)

\* checksumfuncs.c lines 182 and 426, checksum_index.c line 152, with the
\* accumulator shifted before the entry is folded in
Accumulate32_shifted(acc, fp) == Xor(Shl32(acc, 1), fp)

\* checksumfuncs.c lines 182 and 426, checksum_index.c line 152
Accumulate32(acc, fp) == Xor(acc, fp)

\* checksum_database.c lines 158-159 and 253-254, with the accumulator
\* shifted before the contribution is folded in
Accumulate64_shifted(acc, fp, relid) ==
    Xor(Shl64(acc, 1), Shl64(fp, 32) \cup U32(relid))

\* checksum_database.c lines 158-159 and 253-254
Contribution64(fp, relid) == Shl64(fp, 32) \cup U32(relid)

Accumulate64(acc, fp, relid) == Xor(acc, Contribution64(fp, relid))

\* line 152 of checksumfuncs.c (uint32 table_checksum = 0), line 368
\* (index_checksum), checksum_index.c line 130 (page_checksum) and
\* checksum_database.c line 311 (memset of the state), started at the
\* sentinel instead
EmptyAggregate_sentinel == CHECKSUM_NULL

\* checksumfuncs.c lines 152 and 368, checksum_index.c line 130,
\* checksum_database.c line 311
EmptyAggregate == Zero32

\* a row version stored at tid
StoredTuple(tid, xmin, xmax, data) ==
    NormalItem([HeapTuple(xmin, xmax, data) EXCEPT !.t_ctid = tid])

Tid(blk, off) == [blk |-> blk, off |-> off]

\* a pg_class row with the storage behind it: the pages of the main fork
\* by block number (those that hold items), the number of blocks, and for
\* a heap the TIDs that the active snapshot sees (what heap_getnext
\* returns).  The indexes are B-trees (relam 403); the descriptor of a
\* relation without a row type, as an index is, has no type id of its own.
ClassRow(oid, relnamespace, relkind, relpersistence, nblocks, pages, visible) ==
    [oid |-> oid, relnamespace |-> relnamespace, relkind |-> relkind,
     relpersistence |-> relpersistence, nblocks |-> nblocks,
     pages |-> pages, visible |-> visible, tdtypeid |-> 0,
     relam |-> IF relkind = "i" THEN BTREE_AM_OID ELSE 0]

\* an index page: new (never initialised) or holding line pointers
NewPage == [new |-> TRUE, items |-> <<>>]

IndexPage(items) == [new |-> FALSE, items |-> items]

PageIsNew(page) == page.new

RowData == <<1, 0, 0, 0>>

\* a table whose three visible rows are the same row version, two of them
\* at the same offset of blocks 0 and 65536
Accounts ==
    ClassRow(16384, "public", "r", "p", 65537,
             (0 :> <<StoredTuple(Tid(0, 1), 100, 0, RowData),
                     StoredTuple(Tid(0, 2), 100, 0, RowData)>>)
             @@ (65536 :> <<StoredTuple(Tid(65536, 1), 100, 0, RowData)>>),
             {Tid(0, 1), Tid(0, 2), Tid(65536, 1)})

\* its index: a new page, a page with a live and a dead entry, a page with
\* the same live entry at the same offset and another one
AccountsIndex ==
    ClassRow(16387, "public", "i", "p", 3,
             (0 :> NewPage)
             @@ (1 :> IndexPage(<<IndexItem("LP_NORMAL",
                                            IndexTuple(0, 1, <<100, 0, 0, 0>>)),
                                  IndexItem("LP_DEAD",
                                            IndexTuple(0, 1, <<100, 0, 0, 0>>))>>))
             @@ (2 :> IndexPage(<<IndexItem("LP_NORMAL",
                                            IndexTuple(0, 1, <<100, 0, 0, 0>>)),
                                  IndexItem("LP_NORMAL",
                                            IndexTuple(1, 1, <<7, 0, 0, 0>>))>>)),
             {})

\* a table whose only row version is deleted for the snapshot
Emptied ==
    ClassRow(16390, "public", "r", "p", 1,
             (0 :> <<StoredTuple(Tid(0, 1), 100, 101, RowData)>>), {})

\* its index: no live entry
EmptiedIndex ==
    ClassRow(16393, "public", "i", "p", 2,
             (0 :> NewPage)
             @@ (1 :> IndexPage(<<IndexItem("LP_DEAD",
                                            IndexTuple(0, 1, <<100, 0, 0, 0>>)),
                                  [lp_flags |-> "LP_UNUSED", lp_len |-> 0,
                                   itup |-> IndexTuple(0, 0, <<>>)]>>)),
             {})

OneRow == (0 :> <<StoredTuple(Tid(0, 1), 100, 0, RowData)>>)

SystemCatalog ==
    ClassRow(1259, "pg_catalog", "r", "p", 1, OneRow, {Tid(0, 1)})

ToastTable ==
    ClassRow(16396, "pg_toast", "t", "p", 1, OneRow, {Tid(0, 1)})

UnloggedTable ==
    ClassRow(16399, "public", "r", "u", 1, OneRow, {Tid(0, 1)})

View == ClassRow(16402, "public", "v", "p", 0, <<>>, {})

\* a temporary table of the session
TempTable ==
    ClassRow(16405, "pg_temp_3", "r", "t", 1, OneRow, {Tid(0, 1)})

TwoRows ==
    (0 :> <<StoredTuple(Tid(0, 1), 100, 0, RowData),
            StoredTuple(Tid(0, 2), 100, 0, RowData)>>)

\* two tables that hold the same two rows at the same locations
TwinA == ClassRow(16408, "public", "r", "p", 1, TwoRows, {Tid(0, 1), Tid(0, 2)})

TwinB == ClassRow(16411, "public", "r", "p", 1, TwoRows, {Tid(0, 1), Tid(0, 2)})

\* a table whose two visible rows are the same row version at the same
\* offset of blocks 0 and 65536
Mirrored ==
    ClassRow(16414, "public", "r", "p", 65537,
             (0 :> <<StoredTuple(Tid(0, 1), 100, 0, RowData)>>)
             @@ (65536 :> <<StoredTuple(Tid(65536, 1), 100, 0, RowData)>>),
             {Tid(0, 1), Tid(65536, 1)})

\* pg_class of three databases, in the order heap_getnext returns its rows
Databases ==
    [full |-> <<SystemCatalog, Accounts, AccountsIndex, Emptied,
                EmptiedIndex, ToastTable, UnloggedTable, View, TempTable>>,
     bare |-> <<Emptied, EmptiedIndex, UnloggedTable, View>>,
     twins |-> <<TwinA, TwinB, Mirrored>>]

\* relation_open / index_open
RelationOpen(db, relid) ==
    CHOOSE row \in {catalog[i] : i \in DOMAIN catalog} : row.oid = relid

Request(fn, db, relid, include_header, include_system, include_toast, superuser) ==
    [fn |-> fn, db |-> db, relid |-> relid,
     include_header |-> include_header, include_system |-> include_system,
     include_toast |-> include_toast, superuser |-> superuser,
     dboid |-> "MyDatabaseId", callback |-> FALSE, select_priv |-> TRUE]

NoRequest == Request("none", "full", 0, FALSE, FALSE, FALSE, FALSE)

Requests ==
    {Request("pg_checksum_table", "full", row.oid, h, FALSE, FALSE, FALSE) :
        row \in {Accounts, Emptied}, h \in BOOLEAN}
    \cup {Request("pg_checksum_table", "twins", Mirrored.oid, h, FALSE, FALSE,
                  FALSE) : h \in BOOLEAN}
    \cup {Request("pg_checksum_index", "full", row.oid, FALSE, FALSE, FALSE,
                  FALSE) : row \in {AccountsIndex, EmptiedIndex}}
    \cup {Request("pg_index_page_checksum", "full", AccountsIndex.oid, FALSE,
                  FALSE, FALSE, FALSE)}
    \cup {[Request(fn_rel[1], "full", fn_rel[2], FALSE, FALSE, FALSE, FALSE)
              EXCEPT !.select_priv = FALSE] :
            fn_rel \in {<<"pg_checksum_table", Accounts.oid>>,
                        <<"pg_checksum_index", AccountsIndex.oid>>}}
    \cup {Request("pg_database_checksum", db, 0, FALSE, sys, toast, su) :
        db \in DOMAIN Databases, sys \in BOOLEAN, toast \in BOOLEAN,
        su \in BOOLEAN}
    \cup {[Request("pg_database_checksum_internal", db, 0, FALSE, sys, toast,
                   FALSE) EXCEPT !.callback = cb] :
        db \in DOMAIN Databases, sys \in BOOLEAN, toast \in BOOLEAN,
        cb \in BOOLEAN}
    \cup {[Request("pg_database_checksum_internal", "bare", 0, FALSE, FALSE,
                   FALSE, FALSE) EXCEPT !.dboid = d] :
        d \in {"InvalidOid", "other"}}

NoResult == [set |-> FALSE, value |-> {}, writes |-> <<>>, began |-> <<>>]

\* how many times a session asks for its aggregate
MaxScans == 2

ScanState(pc, round, class, relid, todo, blkno, acc, n_tuples, n_pages, fps) ==
    [pc |-> pc, round |-> round, class |-> class, relid |-> relid,
     todo |-> todo, blkno |-> blkno, acc |-> acc, n_tuples |-> n_tuples,
     n_pages |-> n_pages, fps |-> fps, error |-> "none", opened |-> <<>>,
     callbacks |-> <<>>, began |-> <<>>, checks |-> {},
     relkind |-> "", acquired |-> EmptyBag, released |-> EmptyBag]

Idle == ScanState("idle", 0, 0, 0, {}, 0, {}, 0, 0, {})

\* the locks a call takes: AccessShareLock on a relation (relation_open,
\* index_open, table_open) and the content lock of the buffer of a block
\* (LockBuffer); the call's state keeps what it acquired and what it
\* released (relation_close and friends, UnlockReleaseBuffer)
RelationLock(oid) == <<"relation", oid>>

BufferLock(oid, blkno) == <<"buffer", oid, blkno>>

Locked(s, lock) == [s EXCEPT !.acquired = @ (+) SetToBag({lock})]

Unlocked(s, lock) == [s EXCEPT !.released = @ (+) SetToBag({lock})]

\* ReadBuffer, LockBuffer(BUFFER_LOCK_SHARE) ... UnlockReleaseBuffer
ReadLocked(s, oid, blkno) ==
    Unlocked(Locked(s, BufferLock(oid, blkno)), BufferLock(oid, blkno))

\* RelationRelationId
RelationRelationId == 1259

\* the test before CHECK_FOR_INTERRUPTS at the end of a turn of the block
\* loop: (blkno & 63) == 0
InterruptCheckDue(blkno) == blkno % 64 = 0

\* the blocks after which the scan has checked for interrupts
InterruptChecks(checks, blkno) ==
    IF InterruptCheckDue(blkno) THEN checks \cup {blkno} ELSE checks

\* an entry a scan has folded in: where it is, what the mixer was handed
\* for it and its fingerprint
Entry(relid, blk, off, checksum) ==
    [relid |-> relid, blk |-> blk, off |-> off, span |-> checksum.span,
     fp |-> checksum.ret]

\* the offsets of a page whose entries the index loops take (checksumfuncs.c
\* lines 410-420, checksum_index.c lines 135-146, checksum_database.c
\* lines 129-141)
LiveOffsets_dead(page) ==
    {offnum \in 1 .. PageGetMaxOffsetNumber(page.items) :
        ItemIdIsUsed(page.items[offnum])}

LiveOffsets(page) ==
    {offnum \in 1 .. PageGetMaxOffsetNumber(page.items) :
        ~(~ItemIdIsUsed(page.items[offnum]) \/ ItemIdIsDead(page.items[offnum]))}

\* pg_index_tuple_checksum for the entry at offnum, ms[offnum] being the
\* mixer's answer
PageEntryChecksum(page, indexTupDesc, offnum, ms) ==
    pg_index_tuple_checksum(page.items[offnum].itup, indexTupDesc, offnum,
                            ms[offnum])

\* the mixer's answers for the entries of a page agree with what it has
\* answered before
PageAnswers(memo, page, indexTupDesc) ==
    {ms \in [1 .. PageGetMaxOffsetNumber(page.items) -> ScanMixOutcomes] :
        \A offnum \in 1 .. PageGetMaxOffsetNumber(page.items) :
            IF offnum \in LiveOffsets(page)
            THEN ms[offnum] \in
                   MixAnswers(memo, PageEntryChecksum(page, indexTupDesc,
                                                      offnum, ms).span)
            ELSE ms[offnum] = CHECKSUM_NULL}

PageRemember(memo, page, indexTupDesc, ms) ==
    memo \cup {[key |-> PageEntryChecksum(page, indexTupDesc, offnum, ms).span,
                answer |-> ms[offnum]] : offnum \in LiveOffsets(page)}

PageEntries(relid, blkno, page, indexTupDesc, ms) ==
    {Entry(relid, blkno, offnum,
           PageEntryChecksum(page, indexTupDesc, offnum, ms)) :
        offnum \in LiveOffsets(page)}

RECURSIVE IndexPageFold32(_, _, _, _, _)
\* the loop over the offsets of a page (checksumfuncs.c lines 410-429,
\* checksum_index.c lines 135-153), from offnum on
IndexPageFold32(acc, page, indexTupDesc, offnum, ms) ==
    IF offnum > PageGetMaxOffsetNumber(page.items) THEN acc
    ELSE IF offnum \notin LiveOffsets(page)
    THEN IndexPageFold32(acc, page, indexTupDesc, offnum + 1, ms)
    ELSE IndexPageFold32(
             Accumulate32(acc, PageEntryChecksum(page, indexTupDesc, offnum,
                                                 ms).ret),
             page, indexTupDesc, offnum + 1, ms)

RECURSIVE IndexPageFold64(_, _, _, _, _, _)
\* the loop over the offsets of a page (checksum_database.c lines 129-162)
IndexPageFold64(acc, relid, page, indexTupDesc, offnum, ms) ==
    IF offnum > PageGetMaxOffsetNumber(page.items) THEN acc
    ELSE IF offnum \notin LiveOffsets(page)
    THEN IndexPageFold64(acc, relid, page, indexTupDesc, offnum + 1, ms)
    ELSE IndexPageFold64(
             Accumulate64(acc, PageEntryChecksum(page, indexTupDesc, offnum,
                                                 ms).ret, relid),
             relid, page, indexTupDesc, offnum + 1, ms)

\* pg_index_page_checksum (checksum_index.c lines 125-156)
pg_index_page_checksum(page, indexTupDesc, ms) ==
    IndexPageFold32(EmptyAggregate, page, indexTupDesc, 1, ms)

\* the filters of pg_database_checksum_internal (checksum_database.c
\* lines 356-365): TRUE when the row is skipped
ClassRowSkipped(row, include_system, include_toast) ==
    \/ ~include_system /\ row.relnamespace \in {"pg_catalog", "pg_toast"}
    \/ ~include_toast /\ row.relkind = "t"
    \/ row.relpersistence = "u"

RelkindProcessed_any(relkind) == TRUE

\* the relation kinds process_relation_for_checksum reads (lines 203-211)
RelkindProcessed(relkind) == relkind \in {"r", "i", "m", "S", "t"}

---------------------------------------------------------------------------
NoCall == [fn |-> "none"]

ColumnCall ==
    /\ call = NoCall
    /\ \E isnull \in BOOLEAN, typid \in TypeOids, attnum \in AttNums :
         \E value \in Datums(typid), m \in MixOutcomes :
           call' = pg_column_checksum_internal(value, isnull, typid, -1,
                                               attnum, m)
    /\ UNCHANGED <<mixMemo, req, scan, last, prev, catalog, writes>>

TupleCall ==
    /\ call = NoCall
    /\ \E page \in HeapPages, offnum \in 0 .. MaxOffset + 1,
          blkno \in BlockNumbers, include_header \in BOOLEAN,
          m \in MixOutcomes :
           call' = pg_tuple_checksum(page, offnum, blkno, include_header, m)
    /\ UNCHANGED <<mixMemo, req, scan, last, prev, catalog, writes>>

IndexTupleCall ==
    /\ call = NoCall
    /\ \E itup \in IndexTuples, indexTupDesc \in TupleDescs,
          attno \in 1 .. MaxOffset, m \in MixOutcomes :
           call' = pg_index_tuple_checksum(itup, indexTupDesc, attno, m)
    /\ UNCHANGED <<mixMemo, req, scan, last, prev, catalog, writes>>

IndexCall ==
    /\ call = NoCall
    /\ \E page \in IndexPages, offnum \in 0 .. MaxOffset + 1,
          m \in MixOutcomes :
           call' = pg_index_checksum(page, offnum, m)
    /\ UNCHANGED <<mixMemo, req, scan, last, prev, catalog, writes>>

Init ==
    /\ mixMemo = {}
    /\ call = NoCall
    /\ req = NoRequest
    /\ scan = Idle
    /\ last = NoResult
    /\ prev = NoResult
    /\ catalog = <<>>
    /\ writes = <<>>

Next == ColumnCall \/ TupleCall \/ IndexTupleCall \/ IndexCall

Spec == Init /\ [][Next]_vars

---------------------------------------------------------------------------
(* Aggregate scans.  A session asks for one aggregate (req) up to         *)
(* MaxScans times over an unmodified database; heap_getnext hands the     *)
(* visible rows of a table over in any order.                             *)

CanStart == scan.pc \in {"idle", "done", "error"} /\ scan.round < MaxScans

Finished(value, lock) ==
    /\ scan' = Unlocked([scan EXCEPT !.pc = "done"], lock)
    /\ prev' = last
    /\ last' = [set |-> TRUE, value |-> value, writes |-> writes,
                began |-> scan.began]

\* pg_checksum_table, checksumfuncs.c lines 145-159
TableStart ==
    /\ req.fn = "pg_checksum_table" /\ CanStart
    /\ scan' = Locked([ScanState("table", scan.round + 1, 0, req.relid,
                                 RelationOpen(req.db, req.relid).visible, 0,
                                 EmptyAggregate, 0, 0, {})
                       EXCEPT !.began = writes],
                      RelationLock(req.relid))
    /\ UNCHANGED <<mixMemo, call, req, last, prev, catalog, writes>>

\* pg_checksum_table, one turn of the loop, lines 162-186
TableNext ==
    /\ scan.pc = "table"
    /\ \E tid \in scan.todo :
         LET page == RelationOpen(req.db, req.relid).pages[tid.blk]
             key == pg_tuple_checksum(page, tid.off, tid.blk,
                                      req.include_header, Zero32).span
         IN  \E m \in MixAnswers(mixMemo, key) :
               LET tuple_checksum ==
                       pg_tuple_checksum(page, tid.off, tid.blk,
                                         req.include_header, m)
               IN  /\ scan' = ReadLocked([scan EXCEPT
                         !.todo = @ \ {tid},
                         !.acc = Accumulate32(@, tuple_checksum.ret),
                         !.n_tuples = @ + 1,
                         !.fps = @ \cup {Entry(req.relid, tid.blk, tid.off,
                                               tuple_checksum)}],
                         req.relid, tid.blk)
                   /\ mixMemo' = IF tuple_checksum.mixed
                                 THEN MixRemember(mixMemo, key, m)
                                 ELSE mixMemo
    /\ UNCHANGED <<call, req, last, prev, catalog, writes>>

\* pg_checksum_table, lines 162 and 188-192
TableFinish ==
    /\ scan.pc = "table" /\ scan.todo = {}
    /\ Finished(scan.acc, RelationLock(req.relid))
    /\ UNCHANGED <<mixMemo, call, req, catalog, writes>>

\* pg_checksum_index, checksumfuncs.c lines 363-388
IndexStart ==
    /\ req.fn = "pg_checksum_index" /\ CanStart
    /\ scan' = Locked([ScanState("index", scan.round + 1, 0, req.relid, {},
                                 0, EmptyAggregate, 0, 0, {})
                       EXCEPT !.began = writes],
                      RelationLock(req.relid))
    /\ UNCHANGED <<mixMemo, call, req, last, prev, catalog, writes>>

\* pg_checksum_index, one block, lines 391-435
IndexNextPage ==
    /\ scan.pc = "index"
    /\ LET rel == RelationOpen(req.db, req.relid)
           page == rel.pages[scan.blkno]
       IN  /\ scan.blkno < rel.nblocks
           /\ IF PageIsNew(page)
              THEN /\ scan' = ReadLocked([scan EXCEPT !.blkno = @ + 1],
                                          rel.oid, scan.blkno)
                   /\ UNCHANGED mixMemo
              ELSE \E ms \in PageAnswers(mixMemo, page, rel) :
                     /\ scan' = ReadLocked([scan EXCEPT
                           !.blkno = @ + 1,
                           !.checks = InterruptChecks(@, scan.blkno),
                           !.acc = IndexPageFold32(@, page, rel, 1, ms),
                           !.n_tuples = @ + Cardinality(LiveOffsets(page)),
                           !.fps = @ \cup PageEntries(rel.oid, scan.blkno,
                                                      page, rel, ms)],
                           rel.oid, scan.blkno)
                     /\ mixMemo' = PageRemember(mixMemo, page, rel, ms)
    /\ UNCHANGED <<call, req, last, prev, catalog, writes>>

\* pg_checksum_index, lines 391 and 437-442
IndexFinish ==
    /\ scan.pc = "index"
    /\ scan.blkno >= RelationOpen(req.db, req.relid).nblocks
    /\ Finished(scan.acc, RelationLock(req.relid))
    /\ UNCHANGED <<mixMemo, call, req, catalog, writes>>

\* pg_index_page_checksum (checksum_index.c lines 125-156) on the last page
\* of the index
IndexPageCall ==
    /\ req.fn = "pg_index_page_checksum" /\ CanStart
    /\ LET rel == RelationOpen(req.db, req.relid)
           blkno == rel.nblocks - 1
           page == rel.pages[blkno]
       IN  \E ms \in PageAnswers(mixMemo, page, rel) :
             LET page_checksum == pg_index_page_checksum(page, rel, ms)
             IN  /\ scan' = ScanState("done", scan.round + 1, 0, req.relid,
                                      {}, blkno, page_checksum,
                                      Cardinality(LiveOffsets(page)), 0,
                                      PageEntries(rel.oid, blkno, page, rel,
                                                  ms))
                 /\ mixMemo' = PageRemember(mixMemo, page, rel, ms)
                 /\ prev' = last
                 /\ last' = [set |-> TRUE, value |-> page_checksum,
                           writes |-> writes, began |-> writes]
    /\ UNCHANGED <<call, req, catalog, writes>>

\* checksumfuncs.c line 482, whoever calls
superuser_anyone(request) == TRUE

\* checksumfuncs.c line 482: superuser()
superuser(request) == request.superuser

IsDatabaseRequest ==
    req.fn \in {"pg_database_checksum", "pg_database_checksum_internal"}

\* what the callback is shown: the state of checksum_database.c lines
\* 59-68, and the row of pg_class the loop is at
CallbackRecord ==
    [class |-> scan.class, current_relid |-> scan.relid,
     checksum |-> scan.acc, n_tuples |-> scan.n_tuples,
     n_pages |-> scan.n_pages]

\* checksum_database.c lines 371-372, the callback called twice
ProgressCallback_twice(request, log, record) ==
    IF request.callback THEN Append(Append(log, record), record) ELSE log

\* checksum_database.c lines 371-372; pg_database_checksum passes no
\* callback (checksumfuncs.c lines 488-491)
ProgressCallback(request, log, record) ==
    IF request.callback THEN Append(log, record) ELSE log

\* pg_database_checksum (checksumfuncs.c lines 468-494) and
\* pg_database_checksum_internal up to the scan of pg_class
\* (checksum_database.c lines 295-341)
DatabaseStart ==
    /\ IsDatabaseRequest /\ CanStart
    /\ LET begun == ScanState("class", scan.round + 1, 1, 0, {}, 0,
                              EmptyAggregate, 0, 0, {})
           failed == ScanState("error", scan.round + 1, 0, 0, {}, 0,
                               EmptyAggregate, 0, 0, {})
       IN  IF req.fn = "pg_database_checksum" /\ ~superuser(req)
           THEN scan' = [failed EXCEPT !.error = "insufficient_privilege"]
           ELSE IF req.dboid \notin {"InvalidOid", "MyDatabaseId"}
           THEN scan' = [failed EXCEPT !.error = "feature_not_supported"]
           ELSE scan' = Locked([begun EXCEPT !.began = writes],
                               RelationLock(RelationRelationId))
    /\ UNCHANGED <<mixMemo, call, req, last, prev, catalog, writes>>

\* the next row of pg_class: the filters (checksum_database.c lines
\* 342-366), the opening of the relation (lines 186-226) and, for a
\* relation kind that is not read, the return to the loop (lines 203-211
\* and 370-375)
DatabaseNextClass ==
    /\ scan.pc = "class"
    /\ scan.class <= Len(catalog)
    /\ LET row == catalog[scan.class]
       IN  IF ClassRowSkipped(row, req.include_system, req.include_toast)
           THEN scan' = [scan EXCEPT !.class = @ + 1]
           ELSE IF ~RelkindProcessed(row.relkind)
           THEN scan' = Unlocked(Locked([scan EXCEPT
                    !.class = @ + 1,
                    !.callbacks = ProgressCallback(req, @, CallbackRecord)],
                    RelationLock(row.oid)), RelationLock(row.oid))
           ELSE scan' = Locked([scan EXCEPT
                    !.pc = IF row.relkind = "i" THEN "class_index"
                           ELSE "class_heap",
                    !.relid = row.oid,
                    !.relkind = row.relkind,
                    !.opened = Append(@, row.oid),
                    !.checks = {},
                    !.todo = IF row.relkind = "i" THEN {} ELSE row.visible,
                    !.blkno = 0],
                    RelationLock(row.oid))
    /\ UNCHANGED <<mixMemo, call, req, last, prev, catalog, writes>>

\* process_relation_for_checksum, one turn of the heap loop, lines 230-258
DatabaseHeapNext ==
    /\ scan.pc = "class_heap"
    /\ \E tid \in scan.todo :
         LET page == RelationOpen(req.db, scan.relid).pages[tid.blk]
             key == pg_tuple_checksum(page, tid.off, tid.blk, FALSE,
                                      Zero32).span
         IN  \E m \in MixAnswers(mixMemo, key) :
               LET tuple_checksum ==
                       pg_tuple_checksum(page, tid.off, tid.blk, FALSE, m)
               IN  /\ scan' = ReadLocked([scan EXCEPT
                         !.todo = @ \ {tid},
                         !.acc = Accumulate64(@, tuple_checksum.ret,
                                              scan.relid),
                         !.n_tuples = @ + 1,
                         !.fps = @ \cup {Entry(scan.relid, tid.blk, tid.off,
                                               tuple_checksum)}],
                         scan.relid, tid.blk)
                   /\ mixMemo' = IF tuple_checksum.mixed
                                 THEN MixRemember(mixMemo, key, m)
                                 ELSE mixMemo
    /\ UNCHANGED <<call, req, last, prev, catalog, writes>>

\* process_index_for_checksum, one block, lines 107-170
DatabaseIndexNextPage ==
    /\ scan.pc = "class_index"
    /\ LET rel == RelationOpen(req.db, scan.relid)
           page == rel.pages[scan.blkno]
       IN  /\ scan.blkno < rel.nblocks
           /\ IF PageIsNew(page)
              THEN /\ scan' = ReadLocked([scan EXCEPT !.blkno = @ + 1],
                                          rel.oid, scan.blkno)
                   /\ UNCHANGED mixMemo
              ELSE \E ms \in PageAnswers(mixMemo, page, rel) :
                     /\ scan' = ReadLocked([scan EXCEPT
                           !.blkno = @ + 1,
                           !.checks = InterruptChecks(@, scan.blkno),
                           !.acc = IndexPageFold64(@, rel.oid, page, rel, 1,
                                                   ms),
                           !.n_tuples = @ + Cardinality(LiveOffsets(page)),
                           !.n_pages = @ + 1,
                           !.fps = @ \cup PageEntries(rel.oid, scan.blkno,
                                                      page, rel, ms)],
                           rel.oid, scan.blkno)
                     /\ mixMemo' = PageRemember(mixMemo, page, rel, ms)
    /\ UNCHANGED <<call, req, last, prev, catalog, writes>>

\* the end of a relation: process_relation_for_checksum lines 230 and
\* 260-268 or process_index_for_checksum lines 107 and 172, then
\* checksum_database.c lines 370-375
DatabaseRelationDone ==
    /\ \/ scan.pc = "class_heap" /\ scan.todo = {}
       \/ /\ scan.pc = "class_index"
          /\ scan.blkno >= RelationOpen(req.db, scan.relid).nblocks
    /\ scan' = Unlocked([scan EXCEPT
             !.pc = "class",
             !.class = @ + 1,
             !.callbacks = ProgressCallback(req, @, CallbackRecord)],
             RelationLock(scan.relid))
    /\ UNCHANGED <<mixMemo, call, req, last, prev, catalog, writes>>

\* the end of pg_class: checksum_database.c lines 342 and 377-384,
\* checksumfuncs.c line 493
DatabaseFinish ==
    /\ scan.pc = "class"
    /\ scan.class > Len(catalog)
    /\ Finished(scan.acc, RelationLock(RelationRelationId))
    /\ UNCHANGED <<mixMemo, call, req, catalog, writes>>

InitScan ==
    /\ mixMemo = {}
    /\ call = NoCall
    /\ req \in Requests
    /\ scan = Idle
    /\ last = NoResult
    /\ prev = NoResult
    /\ catalog = Databases[req.db]
    /\ writes = <<>>

NextScan ==
    \/ TableStart \/ TableNext \/ TableFinish
    \/ IndexStart \/ IndexNextPage \/ IndexFinish
    \/ IndexPageCall
    \/ DatabaseStart \/ DatabaseNextClass \/ DatabaseHeapNext
    \/ DatabaseIndexNextPage \/ DatabaseRelationDone \/ DatabaseFinish

SpecScan == InitScan /\ [][NextScan]_vars

---------------------------------------------------------------------------
(* A database scan with other sessions writing while it runs.  The scan   *)
(* holds the snapshot it started with (the visible TIDs of a heap); the   *)
(* writers change the pages in the shared buffers.                        *)

\* how many writes the other sessions make in a behaviour
MaxWrites == 2

\* the transaction of the concurrent writers
WriterXid == 105

\* the database the scan runs over: a table of two rows and an index
ConcurrentCatalog == <<TwinA, AccountsIndex>>

ConcurrentRequests ==
    {Request("pg_database_checksum_internal", "pair", 0, FALSE, sys, FALSE,
             FALSE) : sys \in BOOLEAN}

ScanRunning == scan.pc \in {"class", "class_heap", "class_index"}

\* UPDATE or DELETE by another session of a row the snapshot sees:
\* heap_update / heap_delete stamp xmax on the tuple in place
ConcurrentStampXmax ==
    /\ ScanRunning /\ Len(writes) < MaxWrites
    /\ \E i \in DOMAIN catalog : \E tid \in catalog[i].visible :
         /\ catalog[i].pages[tid.blk][tid.off].tuple.t_xmax # WriterXid
         /\ catalog' = [catalog EXCEPT
               ![i].pages[tid.blk][tid.off].tuple.t_xmax = WriterXid]
         /\ writes' = Append(writes, [op |-> "stamp_xmax",
                                      relid |-> catalog[i].oid,
                                      blk |-> tid.blk])
    /\ UNCHANGED <<mixMemo, call, req, scan, last, prev>>

\* INSERT by another session: a new entry at the end of an index page
ConcurrentIndexInsert ==
    /\ ScanRunning /\ Len(writes) < MaxWrites
    /\ \E i \in DOMAIN catalog : \E blk \in DOMAIN catalog[i].pages :
         /\ catalog[i].relkind = "i"
         /\ ~PageIsNew(catalog[i].pages[blk])
         /\ Len(catalog[i].pages[blk].items) <= MaxOffset
         /\ catalog' = [catalog EXCEPT
               ![i].pages[blk].items =
                   Append(@, IndexItem("LP_NORMAL",
                                       IndexTuple(1, 2, <<9, 0, 0, 0>>)))]
         /\ writes' = Append(writes, [op |-> "index_insert",
                                      relid |-> catalog[i].oid,
                                      blk |-> blk])
    /\ UNCHANGED <<mixMemo, call, req, scan, last, prev>>

InitConcurrent ==
    /\ mixMemo = {}
    /\ call = NoCall
    /\ req \in ConcurrentRequests
    /\ scan = Idle
    /\ last = NoResult
    /\ prev = NoResult
    /\ catalog = ConcurrentCatalog
    /\ writes = <<>>

NextConcurrent ==
    \/ DatabaseStart \/ DatabaseNextClass \/ DatabaseHeapNext
    \/ DatabaseIndexNextPage \/ DatabaseRelationDone \/ DatabaseFinish
    \/ ConcurrentStampXmax \/ ConcurrentIndexInsert

SpecConcurrent == InitConcurrent /\ [][NextConcurrent]_vars

---------------------------------------------------------------------------
(* An index aggregate recomputed after an UPDATE of the indexed column    *)
(* and after a second UPDATE that puts the old value back (index test C). *)

\* a table of two rows whose data is the indexed key, and its index: a
\* new page and a leaf with one entry per row, in key order
RestoreTable ==
    ClassRow(16417, "public", "r", "p", 1,
             (0 :> <<StoredTuple(Tid(0, 1), 100, 0, <<7, 0, 0, 0>>),
                     StoredTuple(Tid(0, 2), 100, 0, <<100, 0, 0, 0>>)>>),
             {Tid(0, 1), Tid(0, 2)})

RestoreIndex ==
    ClassRow(16420, "public", "i", "p", 2,
             (0 :> NewPage)
             @@ (1 :> IndexPage(<<IndexItem("LP_NORMAL",
                                            IndexTuple(0, 1, <<7, 0, 0, 0>>)),
                                  IndexItem("LP_NORMAL",
                                            IndexTuple(0, 2, <<100, 0, 0, 0>>))>>)),
             {})

RestoreCatalog == <<RestoreTable, RestoreIndex>>

\* SET key1 = key1 + KeyShift, then SET key1 = key1 - KeyShift
KeyShift == 100

ShiftedKey(key) == <<key[1] + KeyShift>> \o Tail(key)

\* _bt_doinsert: the entry goes behind the entries whose key is not
\* greater (equal keys are ordered by heap TID, and the new TID is the
\* greatest); the entries behind it move up by one offset
BtInsert(items, item) ==
    LET before == Cardinality({i \in DOMAIN items :
                                  items[i].itup.key[1] <= item.itup.key[1]})
    IN  SubSeq(items, 1, before) \o <<item>>
        \o SubSeq(items, before + 1, Len(items))

\* heap_update of the row version at tid, followed by the insertion of
\* the new version's index entry: the old version gets xmax, the new one
\* takes the next line pointer of the page, the old index entry stays
HeapUpdateIndexed(cat, tid, key, xid) ==
    LET heapPage == cat[1].pages[0]
        newTid == Tid(0, Len(heapPage) + 1)
        stamped == [heapPage EXCEPT ![tid.off].tuple.t_xmax = xid]
    IN  [cat EXCEPT
            ![1].pages[0] = Append(stamped, StoredTuple(newTid, xid, 0, key)),
            ![1].visible = (@ \ {tid}) \cup {newTid},
            ![2].pages[1].items =
                BtInsert(@, IndexItem("LP_NORMAL",
                                      IndexTuple(newTid.blk, newTid.off, key)))]

BetweenScans == scan.pc = "done"

\* UPDATE ... SET key1 = key1 + 1000 WHERE id = ...
UpdateIndexed ==
    /\ BetweenScans /\ writes = <<>>
    /\ \E tid \in catalog[1].visible :
         LET old == catalog[1].pages[0][tid.off].tuple.data
         IN  /\ catalog' = HeapUpdateIndexed(catalog, tid, ShiftedKey(old),
                                             WriterXid)
             /\ writes' = <<[op |-> "update", key |-> old,
                             tid |-> Tid(0, Len(catalog[1].pages[0]) + 1)]>>
    /\ UNCHANGED <<mixMemo, call, req, scan, last, prev>>

\* UPDATE ... SET key1 = key1 - 1000 WHERE id = ...
RestoreIndexed ==
    /\ BetweenScans /\ Len(writes) = 1 /\ scan.round < MaxScans
    /\ catalog' = HeapUpdateIndexed(catalog, writes[1].tid, writes[1].key,
                                    WriterXid + 1)
    /\ writes' = Append(writes, [op |-> "restore", key |-> writes[1].key,
                                 tid |-> Tid(0, Len(catalog[1].pages[0]) + 1)])
    /\ UNCHANGED <<mixMemo, call, req, scan, last, prev>>

InitRestore ==
    /\ mixMemo = {}
    /\ call = NoCall
    /\ req = Request("pg_checksum_index", "ledger", RestoreIndex.oid, FALSE,
                     FALSE, FALSE, FALSE)
    /\ scan = Idle
    /\ last = NoResult
    /\ prev = NoResult
    /\ catalog = RestoreCatalog
    /\ writes = <<>>

NextRestore ==
    \/ IndexStart \/ IndexNextPage \/ IndexFinish
    \/ UpdateIndexed \/ RestoreIndexed

SpecRestore == InitRestore /\ [][NextRestore]_vars

---------------------------------------------------------------------------
(* The block loop of an index scan over an index of many blocks, each     *)
(* new (never initialised) or initialised and empty.                      *)

\* the number of blocks of the index
ManyBlocks == 130

\* the blocks that may be new
MaybeNew == {0, 1, 64, 65, 128}

ManyBlocksIndex(newBlocks) ==
    ClassRow(16423, "public", "i", "p", ManyBlocks,
             [b \in 0 .. ManyBlocks - 1 |->
                 IF b \in newBlocks THEN NewPage ELSE IndexPage(<<>>)],
             {})

InitInterrupt ==
    /\ mixMemo = {}
    /\ call = NoCall
    /\ req \in {Request("pg_checksum_index", "many", 16423, FALSE, FALSE,
                        FALSE, FALSE),
                Request("pg_database_checksum_internal", "many", 0, FALSE,
                        FALSE, FALSE, FALSE)}
    /\ scan = Idle
    /\ last = NoResult
    /\ prev = NoResult
    /\ \E newBlocks \in SUBSET MaybeNew :
         catalog = <<ManyBlocksIndex(newBlocks)>>
    /\ writes = <<>>

NextInterrupt ==
    \/ IndexStart \/ IndexNextPage \/ IndexFinish
    \/ DatabaseStart \/ DatabaseNextClass \/ DatabaseIndexNextPage
    \/ DatabaseRelationDone \/ DatabaseFinish

SpecInterrupt == InitInterrupt /\ [][NextInterrupt]_vars

---------------------------------------------------------------------------
(* The accumulation statements on their own: an aggregate in any state    *)
(* (checksum field and entry counter) folds in entries given by their     *)
(* fingerprint and the id of their relation.                              *)

\* how many entries a behaviour folds in
MaxFolds == 2

FoldFingerprints == {Zero32, U32(7), CHECKSUM_NULL, Word32}

FoldRelids == {16384, 16387}

\* the aggregate of pg_checksum_table / pg_checksum_index (32 bits) or
\* the DatabaseChecksumState (64 bits), and the entries folded so far
FoldState(width, checksum, n_tuples, log) ==
    [fn |-> "fold", width |-> width, checksum |-> checksum,
     n_tuples |-> n_tuples, log |-> log]

Folded(stmt, fp, relid, counted, after) ==
    LET n_after == IF counted THEN call.n_tuples + 1 ELSE call.n_tuples
    IN  FoldState(call.width, after, n_after,
                  Append(call.log,
                         [stmt |-> stmt, fp |-> fp, relid |-> relid,
                          counted |-> counted,
                          before |-> call.checksum, after |-> after,
                          n_before |-> call.n_tuples, n_after |-> n_after]))

CanFold(width) == call.width = width /\ Len(call.log) < MaxFolds

\* pg_checksum_table: table_checksum ^= tuple_checksum (no counter)
TableFold ==
    /\ CanFold(32)
    /\ \E fp \in FoldFingerprints, relid \in FoldRelids :
         call' = Folded("table", fp, relid, FALSE,
                        Accumulate32(call.checksum, fp))
    /\ UNCHANGED <<mixMemo, req, scan, last, prev, catalog, writes>>

\* pg_checksum_index: index_checksum ^= tuple_checksum; n_tuples++
IndexFold ==
    /\ CanFold(32)
    /\ \E fp \in FoldFingerprints, relid \in FoldRelids :
         call' = Folded("index", fp, relid, TRUE,
                        Accumulate32(call.checksum, fp))
    /\ UNCHANGED <<mixMemo, req, scan, last, prev, catalog, writes>>

\* process_relation_for_checksum: the contribution of a row
DatabaseRowFold ==
    /\ CanFold(64)
    /\ \E fp \in FoldFingerprints, relid \in FoldRelids :
         call' = Folded("database_row", fp, relid, TRUE,
                        Accumulate64(call.checksum, fp, relid))
    /\ UNCHANGED <<mixMemo, req, scan, last, prev, catalog, writes>>

\* process_index_for_checksum: the contribution of an index entry
DatabaseIndexFold ==
    /\ CanFold(64)
    /\ \E fp \in FoldFingerprints, relid \in FoldRelids :
         call' = Folded("database_index", fp, relid, TRUE,
                        Accumulate64(call.checksum, fp, relid))
    /\ UNCHANGED <<mixMemo, req, scan, last, prev, catalog, writes>>

InitFold ==
    /\ mixMemo = {}
    /\ \/ \E checksum \in {EmptyAggregate, U32(7), CHECKSUM_NULL} :
            call = FoldState(32, checksum, 0, <<>>)
       \/ \E checksum \in {EmptyAggregate, Contribution64(U32(7), 16384),
                           Word64} :
            call = FoldState(64, checksum, 0, <<>>)
    /\ req = NoRequest
    /\ scan = Idle
    /\ last = NoResult
    /\ prev = NoResult
    /\ catalog = <<>>
    /\ writes = <<>>

NextFold == TableFold \/ IndexFold \/ DatabaseRowFold \/ DatabaseIndexFold

SpecFold == InitFold /\ [][NextFold]_vars

---------------------------------------------------------------------------
(* Index aggregates over an index with entries that are not live, while   *)
(* the bytes of those entries and of the new page change (a pruned        *)
(* entry's space is reused, a new page is being filled).                  *)

UnusedIndexItem(itup) == [lp_flags |-> "LP_UNUSED", lp_len |-> 0, itup |-> itup]

\* block 0 new, block 1 a live and a dead entry, block 2 an unused, a
\* live and a dead entry
MixedIndex ==
    ClassRow(16426, "public", "i", "p", 3,
             (0 :> NewPage)
             @@ (1 :> IndexPage(<<IndexItem("LP_NORMAL",
                                            IndexTuple(0, 1, <<100, 0, 0, 0>>)),
                                  IndexItem("LP_DEAD",
                                            IndexTuple(0, 2, <<100, 0, 0, 0>>))>>))
             @@ (2 :> IndexPage(<<UnusedIndexItem(IndexTuple(0, 0, <<>>)),
                                  IndexItem("LP_NORMAL",
                                            IndexTuple(1, 1, <<7, 0, 0, 0>>)),
                                  IndexItem("LP_DEAD",
                                            IndexTuple(1, 2, <<7, 0, 0, 0>>))>>)),
             {})

\* the bytes written over an entry that is not live
Scribble == IndexTuple(9, 9, <<255, 0, 0, 0>>)

\* another session writes over the bytes of one entry that is not live,
\* or into a page that is still new; the line pointer flags stay
ScribbleNonLive ==
    /\ Len(writes) < MaxWrites
    /\ \E blk \in DOMAIN catalog[1].pages :
         LET page == catalog[1].pages[blk]
         IN  \/ /\ PageIsNew(page) /\ page.items = <<>>
                /\ catalog' = [catalog EXCEPT ![1].pages[blk].items =
                                  <<IndexItem("LP_NORMAL", Scribble)>>]
                /\ writes' = Append(writes, [op |-> "scribble", blk |-> blk,
                                             off |-> 0])
             \/ \E off \in DOMAIN page.items :
                  /\ ~PageIsNew(page)
                  /\ page.items[off].lp_flags \in {"LP_UNUSED", "LP_DEAD"}
                  /\ page.items[off].itup # Scribble
                  /\ catalog' = [catalog EXCEPT
                                    ![1].pages[blk].items[off].itup = Scribble]
                  /\ writes' = Append(writes, [op |-> "scribble", blk |-> blk,
                                               off |-> off])
    /\ UNCHANGED <<mixMemo, call, req, scan, last, prev>>

InitMixed ==
    /\ mixMemo = {}
    /\ call = NoCall
    /\ req \in {Request(fn, "mixed", 16426, FALSE, FALSE, FALSE, FALSE) :
                  fn \in {"pg_checksum_index", "pg_index_page_checksum",
                          "pg_database_checksum_internal"}}
    /\ scan = Idle
    /\ last = NoResult
    /\ prev = NoResult
    /\ catalog = <<MixedIndex>>
    /\ writes = <<>>

NextMixed ==
    \/ IndexStart \/ IndexNextPage \/ IndexFinish \/ IndexPageCall
    \/ DatabaseStart \/ DatabaseNextClass \/ DatabaseIndexNextPage
    \/ DatabaseRelationDone \/ DatabaseFinish
    \/ ScribbleNonLive

SpecMixed == InitMixed /\ [][NextMixed]_vars

---------------------------------------------------------------------------
(* Column of a stored row: pg_tuple_column_checksum, checksum_column.c.   *)
(* A session fingerprints one attribute of a row version, then updates    *)
(* the row (heap_update writes a new version at another place, with new   *)
(* stamps) and fingerprints the attribute of the new version.             *)

\* pg_attribute of the test table (id int, data text)
RowDesc ==
    <<[atttypid |-> 23, atttypmod |-> -1], [atttypid |-> 25, atttypmod |-> -1]>>

\* a stored attribute: null, or its bytes and the form they are stored in
NullAttr == [isnull |-> TRUE, bytes |-> <<>>, va |-> "raw"]

Attr(bytes, va) == [isnull |-> FALSE, bytes |-> bytes, va |-> va]

\* the values a row of the table can hold in each column
AttrValues(attnum) ==
    IF attnum = 1
    THEN {NullAttr, Attr(<<42, 0, 0, 0>>, "raw"), Attr(<<7, 0, 0, 0>>, "raw")}
    ELSE {NullAttr, Attr(<<116>>, "short"), Attr(<<116>>, "compressed"),
          Attr(<<117>>, "short")}

\* a row version: the header fields the code reads and the attributes
\* stored in it (t_natts of them; a column added later is not stored)
RowVersion(tid, xmin, xmax, atts) ==
    [t_xmin |-> xmin, t_xmax |-> xmax, t_ctid |-> tid,
     t_natts |-> Len(atts), atts |-> atts]

\* HeapTupleHeaderGetDatumLength reads the first header word, which on a
\* stored tuple is t_xmin, as a varlena length word (line 209)
HeapTupleHeaderGetDatumLength(tuple) == tuple.t_xmin \div 4

\* the address of an attribute stored in a tuple: it follows the place
AttrAddress(tid, attnum) ==
    <<8 * attnum, tid.off, tid.blk, 64, 0, 0, 0, 0>>

\* heap_getattr: an attribute beyond t_natts or marked in the null bitmap
\* is null; a by-value attribute is fetched into the Datum, any other is
\* a pointer into the tuple.  t_len is not consulted.
heap_getattr(heapTuple, attnum, tupleDesc) ==
    LET tup == heapTuple.t_data
    IN  IF attnum > tup.t_natts \/ tup.atts[attnum].isnull THEN
            [isnull |-> TRUE,
             value |-> [word |-> NullPointer, mem |-> <<>>, va |-> "raw"]]
        ELSE IF pg_type[tupleDesc[attnum].atttypid].typbyval THEN
            [isnull |-> FALSE,
             value |-> [word |-> tup.atts[attnum].bytes \o <<0, 0, 0, 0>>,
                        mem |-> <<>>, va |-> "raw"]]
        ELSE
            [isnull |-> FALSE,
             value |-> [word |-> AttrAddress(heapTuple.t_self, attnum),
                        mem |-> tup.atts[attnum].bytes,
                        va |-> tup.atts[attnum].va]]

\* a column fingerprint that folds the inserting transaction in
pg_tuple_column_checksum_stamped(tuple, attnum, tupleDesc, m) ==
    IF attnum <= 0 \/ attnum > Len(tupleDesc) THEN
        ColumnResult(FALSE, 0, attnum, FALSE, "invalid attribute number",
                     <<>>, Zero32, Zero32)
    ELSE
        LET heapTuple == [t_len |-> HeapTupleHeaderGetDatumLength(tuple),
                          t_data |-> tuple, t_tableOid |-> 0,
                          t_self |-> tuple.t_ctid]
            attr == tupleDesc[attnum]
            got == heap_getattr(heapTuple, attnum, tupleDesc)
            res == pg_column_checksum_internal(got.value, got.isnull,
                                               attr.atttypid, attr.atttypmod,
                                               attnum, m)
        IN  [res EXCEPT !.ret = Xor(@, U32(tuple.t_xmin))]

\* pg_tuple_column_checksum (lines 187-221)
pg_tuple_column_checksum(tuple, attnum, tupleDesc, m) ==
    IF attnum <= 0 \/ attnum > Len(tupleDesc) THEN
        ColumnResult(FALSE, 0, attnum, FALSE, "invalid attribute number",
                     <<>>, Zero32, Zero32)
    ELSE
        LET heapTuple == [t_len |-> HeapTupleHeaderGetDatumLength(tuple),
                          t_data |-> tuple, t_tableOid |-> 0,
                          t_self |-> tuple.t_ctid]
            attr == tupleDesc[attnum]
            got == heap_getattr(heapTuple, attnum, tupleDesc)
        IN  pg_column_checksum_internal(got.value, got.isnull,
                                        attr.atttypid, attr.atttypmod,
                                        attnum, m)

\* the number of versions of the row a behaviour writes
MaxVersions == 3

\* the first version of the row: stored before or after the second
\* column was added
FirstVersions ==
    {RowVersion(Tid(0, 1), 100, 0, <<id>>) : id \in AttrValues(1)}
    \cup {RowVersion(Tid(0, 1), 100, 0, <<id, data>>) :
            id \in AttrValues(1), data \in AttrValues(2)}

RowRequest(tuple, attnum) ==
    [fn |-> "pg_tuple_column_checksum", rows |-> <<tuple>>,
     attnum |-> attnum]

NoRowCall == [fn |-> "pg_tuple_column_checksum", results |-> <<>>]

\* one call on the newest version of the row
TupleColumnCall ==
    /\ Len(call.results) < Len(req.rows)
    /\ LET tuple == req.rows[Len(req.rows)]
           key == pg_tuple_column_checksum(tuple, req.attnum, RowDesc,
                                           Zero32).span
       IN  \E m \in MixAnswers(mixMemo, key) :
             LET res == pg_tuple_column_checksum(tuple, req.attnum, RowDesc, m)
             IN  /\ call' = [call EXCEPT !.results = Append(@, res)]
                 /\ mixMemo' = IF res.mixed
                               THEN MixRemember(mixMemo, key, m)
                               ELSE mixMemo
    /\ UNCHANGED <<req, scan, last, prev, catalog, writes>>

\* UPDATE of one column of the row: the new version takes the next line
\* pointer or the next block and the stamp of the updating transaction;
\* every column is stored afresh, in whatever form the toaster picks,
\* and the old version gets its xmax
RowUpdate ==
    /\ Len(call.results) = Len(req.rows) /\ Len(req.rows) < MaxVersions
    /\ LET n == Len(req.rows)
           old == req.rows[n]
       IN  \E col \in 1 .. Len(RowDesc),
              tid \in {Tid(0, n + 1), Tid(n, 1)},
              form \in {"short", "compressed"} :
           \E v \in AttrValues(col) :
             LET kept(a) ==
                     IF a > old.t_natts THEN NullAttr
                     ELSE IF a = 2 /\ ~old.atts[a].isnull
                     THEN [old.atts[a] EXCEPT !.va = form]
                     ELSE old.atts[a]
                 atts == [a \in 1 .. Len(RowDesc) |->
                             IF a = col THEN v ELSE kept(a)]
             IN  req' = [req EXCEPT !.rows =
                            [i \in 1 .. n + 1 |->
                               IF i = n + 1
                               THEN RowVersion(tid, 100 + n, 0, atts)
                               ELSE IF i = n
                               THEN [old EXCEPT !.t_xmax = 100 + n]
                               ELSE req.rows[i]]]
    /\ UNCHANGED <<mixMemo, call, scan, last, prev, catalog, writes>>

InitRow ==
    /\ mixMemo = {}
    /\ call = NoRowCall
    /\ \E tuple \in FirstVersions, attnum \in 0 .. Len(RowDesc) + 1 :
         req = RowRequest(tuple, attnum)
    /\ scan = Idle
    /\ last = NoResult
    /\ prev = NoResult
    /\ catalog = <<>>
    /\ writes = <<>>

NextRow == TupleColumnCall \/ RowUpdate

SpecRow == InitRow /\ [][NextRow]_vars


----------------------------------------------------------------------------
(* The SQL-callable functions with the locks they take.  The aggregate    *)
(* functions are the scans above; pg_checksum_tuple, pg_checksum_page_data *)
(* and pg_checksum_column read one block and are one step each.           *)

\* a table whose rows have the columns of RowDesc: block 0 holds a row
\* version and a line pointer that is not used
Ledger ==
    ClassRow(16429, "public", "r", "p", 1,
             (0 :> <<[lp_flags |-> "LP_NORMAL", lp_len |-> 30,
                      tuple |-> RowVersion(Tid(0, 1), 100, 0,
                                           <<Attr(<<42, 0, 0, 0>>, "raw"),
                                             Attr(<<116>>, "short")>>)],
                     [lp_flags |-> "LP_UNUSED", lp_len |-> 0,
                      tuple |-> RowVersion(Tid(0, 2), 0, 0, <<>>)]>>),
             {Tid(0, 1)})

\* the calls of a session: the aggregate requests, and the one-block
\* functions on a table and on an OID that names no relation
LockRequests ==
    {r \in Requests : r.fn # "pg_index_page_checksum"}
    \cup {Request(fn, "full", relid, h, FALSE, FALSE, FALSE) :
            fn \in {"pg_checksum_tuple", "pg_checksum_page_data"},
            relid \in {Accounts.oid, 0}, h \in BOOLEAN}
    \cup {Request("pg_checksum_column", "ledger", relid, FALSE, FALSE, FALSE,
                  FALSE) : relid \in {Ledger.oid, 0}}

RelationIsValid(relid) == \E i \in DOMAIN catalog : catalog[i].oid = relid

\* the block numbers a caller passes: those of the relation's pages and
\* the one past its end, for which ReadBuffer raises an error
BlockChoices(relid) ==
    IF RelationIsValid(relid)
    THEN DOMAIN RelationOpen(req.db, relid).pages
         \cup {RelationOpen(req.db, relid).nblocks}
    ELSE {0}

\* the state a one-block call ends in
Returned(pc, blkno, error) ==
    [ScanState(pc, scan.round + 1, 0, req.relid, {}, blkno, EmptyAggregate,
               0, 0, {})
     EXCEPT !.error = error, !.began = writes]

\* the value a call returns to the session
Returns(value) ==
    /\ prev' = last
    /\ last' = [set |-> TRUE, value |-> value, writes |-> writes,
                began |-> writes]

\* pg_checksum_tuple (checksumfuncs.c lines 70-124): relation_open,
\* ReadBuffer, LockBuffer, pg_tuple_checksum; PG_CATCH and the normal path
\* both release the buffer if it was locked and close the relation
TupleSqlCall ==
    /\ req.fn = "pg_checksum_tuple" /\ CanStart
    /\ \E blkno \in BlockChoices(req.relid), offnum \in 0 .. MaxOffset + 1 :
         IF ~RelationIsValid(req.relid) THEN
             /\ scan' = Returned("error", blkno, "undefined_table")
             /\ UNCHANGED <<mixMemo, last, prev>>
         ELSE IF blkno >= RelationOpen(req.db, req.relid).nblocks THEN
             /\ scan' = Unlocked(Locked(Returned("error", blkno,
                                                 "block_out_of_range"),
                                        RelationLock(req.relid)),
                                 RelationLock(req.relid))
             /\ UNCHANGED <<mixMemo, last, prev>>
         ELSE
             LET page == RelationOpen(req.db, req.relid).pages[blkno]
                 key == pg_tuple_checksum(page, offnum, blkno,
                                          req.include_header, Zero32).span
             IN  \E m \in MixAnswers(mixMemo, key) :
                   LET checksum == pg_tuple_checksum(page, offnum, blkno,
                                                     req.include_header, m)
                   IN  /\ scan' = Unlocked(
                                    ReadLocked(
                                      Locked(Returned("done", blkno, "none"),
                                             RelationLock(req.relid)),
                                      req.relid, blkno),
                                    RelationLock(req.relid))
                       /\ mixMemo' = IF checksum.mixed
                                     THEN MixRemember(mixMemo, key, m)
                                     ELSE mixMemo
                       /\ Returns(checksum.ret)
    /\ UNCHANGED <<call, req, catalog, writes>>

\* pg_checksum_page_data (checksumfuncs.c lines 210-262): the relation
\* comes from RelationIdGetRelation, which takes no lock; the buffer is
\* read and locked, the page behind its header is mixed with seed 0;
\* PG_CATCH and the normal path both release the buffer if it was locked
\* and call relation_close(rel, AccessShareLock)
PageDataCall ==
    /\ req.fn = "pg_checksum_page_data" /\ CanStart
    /\ \E blocknum \in BlockChoices(req.relid) :
         IF ~RelationIsValid(req.relid) THEN
             /\ scan' = Returned("error", blocknum, "invalid_parameter_value")
             /\ UNCHANGED <<mixMemo, last, prev>>
         ELSE IF blocknum >= RelationOpen(req.db, req.relid).nblocks THEN
             /\ scan' = Unlocked(Returned("error", blocknum,
                                          "block_out_of_range"),
                                 RelationLock(req.relid))
             /\ UNCHANGED <<mixMemo, last, prev>>
         ELSE
             LET page == RelationOpen(req.db, req.relid).pages[blocknum]
                 key == MixKey(page, U32(8192 - 24), Zero32)
             IN  \E checksum \in MixAnswers(mixMemo, key) :
                   /\ scan' = Unlocked(
                                ReadLocked(Returned("done", blocknum, "none"),
                                           req.relid, blocknum),
                                RelationLock(req.relid))
                   /\ mixMemo' = MixRemember(mixMemo, key, checksum)
                   /\ Returns(checksum)
    /\ UNCHANGED <<call, req, catalog, writes>>

\* pg_checksum_column (checksumfuncs.c lines 283-342): the attribute
\* number is checked, the relation opened, the number checked against the
\* descriptor, the buffer read and locked, the line pointer checked, and
\* after pg_tuple_column_checksum the buffer and the relation released.
\* An error leaves what was taken to the end of the transaction.
ColumnSqlCall ==
    /\ req.fn = "pg_checksum_column" /\ CanStart
    /\ \E blkno \in BlockChoices(req.relid), offnum \in 1 .. MaxOffset,
          attnum \in 0 .. Len(RowDesc) + 1 :
         LET opened == Locked(Returned("error", blkno,
                                       "invalid_parameter_value"),
                              RelationLock(req.relid))
         IN  IF attnum <= 0 THEN
                 /\ scan' = Returned("error", blkno,
                                     "invalid_parameter_value")
                 /\ UNCHANGED <<mixMemo, last, prev>>
             ELSE IF ~RelationIsValid(req.relid) THEN
                 /\ scan' = Returned("error", blkno, "undefined_table")
                 /\ UNCHANGED <<mixMemo, last, prev>>
             ELSE IF attnum > Len(RowDesc) THEN
                 /\ scan' = opened
                 /\ UNCHANGED <<mixMemo, last, prev>>
             ELSE IF blkno >= RelationOpen(req.db, req.relid).nblocks THEN
                 /\ scan' = [opened EXCEPT !.error = "block_out_of_range"]
                 /\ UNCHANGED <<mixMemo, last, prev>>
             ELSE
                 LET lp == RelationOpen(req.db, req.relid).pages[blkno][offnum]
                     key == pg_tuple_column_checksum(lp.tuple, attnum,
                                                     RowDesc, Zero32).span
                 IN  IF ~ItemIdIsUsed(lp) THEN
                         /\ scan' = Locked(opened, BufferLock(req.relid, blkno))
                         /\ UNCHANGED <<mixMemo, last, prev>>
                     ELSE \E m \in MixAnswers(mixMemo, key) :
                       LET checksum ==
                               pg_tuple_column_checksum(lp.tuple, attnum,
                                                        RowDesc, m)
                       IN  /\ scan' = Unlocked(
                                        ReadLocked(
                                          Locked(Returned("done", blkno,
                                                          "none"),
                                                 RelationLock(req.relid)),
                                          req.relid, blkno),
                                        RelationLock(req.relid))
                           /\ mixMemo' = IF checksum.mixed
                                         THEN MixRemember(mixMemo, key, m)
                                         ELSE mixMemo
                           /\ Returns(checksum.ret)
    /\ UNCHANGED <<call, req, catalog, writes>>

InitLocks ==
    /\ mixMemo = {}
    /\ call = NoCall
    /\ req \in LockRequests
    /\ scan = Idle
    /\ last = NoResult
    /\ prev = NoResult
    /\ catalog = IF req.db = "ledger" THEN <<Ledger>> ELSE Databases[req.db]
    /\ writes = <<>>

NextLocks ==
    \/ TableStart \/ TableNext \/ TableFinish
    \/ IndexStart \/ IndexNextPage \/ IndexFinish
    \/ DatabaseStart \/ DatabaseNextClass \/ DatabaseHeapNext
    \/ DatabaseIndexNextPage \/ DatabaseRelationDone \/ DatabaseFinish
    \/ TupleSqlCall \/ PageDataCall \/ ColumnSqlCall

SpecLocks == InitLocks /\ [][NextLocks]_vars

---------------------------------------------------------------------------
(* Properties of the entry-level calls, checked under Spec *)

IsColumnCall == call.fn = "pg_column_checksum_internal"

IsTupleCall == call.fn = "pg_tuple_checksum"

\* C1: a column call on a non-null value that returns (no error raised)
\* never returns CHECKSUM_NULL, whatever the storage class, the type id,
\* the attribute number and the mixer's answer, the sentinel included.
C1_NonNullNeverSentinel ==
    (IsColumnCall /\ ~call.isnull /\ call.error = "none")
        => call.ret # CHECKSUM_NULL

\* the mixer answered the sentinel for a non-null value and the call
\* returned something else
C1_Witness ==
    /\ IsColumnCall /\ ~call.isnull /\ call.error = "none"
    /\ call.mixed /\ call.raw = CHECKSUM_NULL
    /\ call.ret # CHECKSUM_NULL

\* C2: a column call with isnull = true returns CHECKSUM_NULL whatever the
\* other arguments are; it looks no type up, mixes nothing and raises no
\* error, also for a type id the catalog cannot resolve.
C2_NullIsSentinel ==
    (IsColumnCall /\ call.isnull)
        => /\ call.ret = CHECKSUM_NULL
           /\ call.error = "none"
           /\ ~call.lookup
           /\ ~call.mixed

\* a null of a type the catalog does not know
C2_Witness ==
    /\ IsColumnCall /\ call.isnull
    /\ call.typid \notin DOMAIN pg_type
    /\ call.ret = CHECKSUM_NULL

IsIndexTupleCall == call.fn = "pg_index_tuple_checksum"

IsIndexCall == call.fn = "pg_index_checksum"

\* the stamps the tuple of a computed tuple call carries
CallStamps ==
    <<call.page[call.offnum].tuple.t_xmin, call.page[call.offnum].tuple.t_xmax>>

\* C4: at one location, with the same data bytes and the header excluded,
\* a row version with other (xmin, xmax) stamps gets another checksum.  The
\* other version has the same data span and seed, so the mixer gives it the
\* same answer.
C4_StampsChangeChecksum ==
    (/\ IsTupleCall /\ call.why = "computed" /\ ~call.include_header
     /\ call.page[call.offnum].lp_flags = "LP_NORMAL")
        => \A st \in Stamps \ {CallStamps} :
              TupleFinish(call.raw, LocationHash(call.blkno, call.offnum),
                          FALSE, st[1], st[2]) # call.ret

\* C5: no tuple or index entry call returns the sentinel, whatever the
\* page, offset, block number, header flag, entry, descriptor and position.
C5_EntriesNeverSentinel ==
    (IsTupleCall \/ IsIndexTupleCall \/ IsIndexCall)
        => call.ret # CHECKSUM_NULL

\* an index entry whose checksum came out as the sentinel (the mixer's
\* answer with the heap TID bound in) and was remapped
C5_Witness ==
    /\ IsIndexTupleCall
    /\ call.tdtypeid = BTREE_AM_OID
    /\ HeapTidBinding(call.itup, [tdtypeid |-> call.tdtypeid], call.raw)
         = CHECKSUM_NULL
    /\ call.ret # CHECKSUM_NULL

\* the offset of a tuple call is out of range, or its slot is not in use
InvalidPosition ==
    \/ call.offnum < 1
    \/ call.offnum > Len(call.page)
    \/ call.page[call.offnum].lp_flags = "LP_UNUSED"

\* C9: a tuple call on an offset below the first, above the page's
\* maximum, or on a slot not in use returns zero; it reads no tuple bytes
\* and asks the mixer nothing.
C9_InvalidPositionIsZero ==
    (IsTupleCall /\ InvalidPosition)
        => /\ call.ret = Zero32
           /\ ~call.read
           /\ ~call.mixed

\* an unused slot within the page's range
C9_Witness ==
    /\ IsTupleCall
    /\ call.offnum >= 1 /\ call.offnum <= Len(call.page)
    /\ call.page[call.offnum].lp_flags = "LP_UNUSED"
    /\ call.ret = Zero32

\* the byte span a tuple call selects is not empty
SpanNonEmpty ==
    LET lp == call.page[call.offnum]
    IN  IF call.include_header THEN lp.lp_len > 0
        ELSE lp.lp_len - lp.tuple.t_hoff > 0

\* C10: a tuple call on a used slot within range whose selected span is
\* not empty returns neither 0 nor the sentinel.
C10_ComputedIsValid ==
    (IsTupleCall /\ ~InvalidPosition /\ SpanNonEmpty)
        => call.ret \notin {Zero32, CHECKSUM_NULL}

\* C23: an index entry's fingerprint is, before the heap TID is bound in
\* and the sentinel is remapped, the mixer's answer for the entry's bytes
\* seeded with the position, XORed with the position
C23_PositionSeededAndXored ==
    (/\ IsIndexTupleCall
     /\ call.tdtypeid # BTREE_AM_OID
     /\ call.raw # CHECKSUM_NULL
     /\ Xor(call.raw, U32(call.attno)) # CHECKSUM_NULL)
    => /\ call.span[3] = U32(call.attno)
       /\ call.ret = Xor(call.raw, U32(call.attno))


\* the (block number, offset) pairs a tuple call can be made for
Locations == BlockNumbers \X (1 .. MaxOffset)

\* C28: the location seed (blkno << 16) | offnum of a tuple call is the
\* seed of no other (block number, offset) pair.
C28_LocationSeedInjective ==
    (IsTupleCall /\ call.why = "computed")
        => \A loc \in Locations \ {<<call.blkno, call.offnum>>} :
              LocationHash(loc[1], loc[2]) # call.span[3]

\* C29: the span a tuple call hands to the mixer is no longer than the
\* item, and with the header excluded a header length that reaches the
\* item's length makes the call return 0 without a span.
C29_SpanInsideItem ==
    (IsTupleCall /\ call.read)
        => LET lp == call.page[call.offnum]
           IN  /\ call.mixed
                     => \E len \in 0 .. lp.lp_len : call.span[2] = U32(len)
               /\ (~call.include_header /\ lp.tuple.t_hoff >= lp.lp_len)
                     => (~call.mixed /\ call.ret = Zero32)

---------------------------------------------------------------------------
(* Properties of the aggregate scans, checked under SpecScan *)

\* the stored row version an entry of a table scan was computed from
StoredAt(e) == RelationOpen(req.db, e.relid).pages[e.blk][e.off].tuple

\* C3: within one table scan with the header excluded, two visible rows at
\* different (block, offset) locations that hold the same data bytes and
\* the same stamps get different checksums.
C3_LocationChangesChecksum ==
    (req.fn = "pg_checksum_table" /\ ~req.include_header)
        => \A e1 \in scan.fps, e2 \in scan.fps :
              (/\ <<e1.blk, e1.off>> # <<e2.blk, e2.off>>
               /\ StoredAt(e1).data = StoredAt(e2).data
               /\ StoredAt(e1).t_xmin = StoredAt(e2).t_xmin
               /\ StoredAt(e1).t_xmax = StoredAt(e2).t_xmax)
                  => e1.fp # e2.fp

\* what an entry contributes to the accumulator of the running scan
EntryWord(e) ==
    IF IsDatabaseRequest THEN Contribution64(e.fp, e.relid)
    ELSE e.fp

RECURSIVE XorOfEntries(_)
\* the XOR of the contributions of a set of entries, taken in one fixed
\* order that no scan knows of
XorOfEntries(entries) ==
    IF entries = {} THEN {}
    ELSE LET e == CHOOSE x \in entries : TRUE
         IN  Xor(EntryWord(e), XorOfEntries(entries \ {e}))

\* the entries a completed scan must have folded in
ScannedAll ==
    /\ req.fn = "pg_checksum_table"
          => {Tid(e.blk, e.off) : e \in scan.fps}
                 = RelationOpen(req.db, req.relid).visible
    /\ req.fn = "pg_checksum_index"
          => LET rel == RelationOpen(req.db, req.relid)
             IN  {Tid(e.blk, e.off) : e \in scan.fps}
                   = {t \in [blk : 0 .. rel.nblocks - 1, off : 1 .. MaxOffset] :
                         /\ ~PageIsNew(rel.pages[t.blk])
                         /\ t.off \in LiveOffsets(rel.pages[t.blk])}

\* C6: in whatever order a scan has folded entries in, its accumulator
\* (32 bits for a table, an index or an index page, 64 bits for the
\* database) is the XOR of their contributions; a completed scan has
\* folded in every live entry, so its result does not depend on the order.
C6_OrderIndependent ==
    /\ scan.pc \notin {"idle", "error"} => scan.acc = XorOfEntries(scan.fps)
    /\ scan.pc = "done" => (last.value = scan.acc /\ ScannedAll)

\* a completed table scan that folded three rows in, a completed database
\* scan that folded entries of a table and of an index in
C6_Witness ==
    /\ scan.pc = "done"
    /\ Cardinality(scan.fps) >= 3
    /\ scan.acc # {}
    /\ scan.acc = XorOfEntries(scan.fps)

\* the request is for a table without visible rows, for an index or an
\* index page without live entries, or for a database none of whose
\* relations has contributed an entry
NothingToFold ==
    LET rel == RelationOpen(req.db, req.relid)
    IN  \/ req.fn = "pg_checksum_table" /\ rel.visible = {}
        \/ /\ req.fn = "pg_checksum_index"
           /\ \A blkno \in 0 .. rel.nblocks - 1 :
                 PageIsNew(rel.pages[blkno])
                 \/ LiveOffsets(rel.pages[blkno]) = {}
        \/ IsDatabaseRequest /\ scan.fps = {}

\* C7: a completed scan returns 0 for a table without visible rows, for an
\* index without live entries, and for a database none of whose relations
\* contributed an entry.
C7_EmptyIsZero ==
    (scan.pc = "done" /\ NothingToFold) => (last.set /\ last.value = {})

\* a completed scan of a database whose relations hold nothing the scan
\* takes: an emptied table, an index without live entries, an unlogged
\* table, a view
C7_Witness ==
    /\ scan.pc = "done" /\ NothingToFold
    /\ IsDatabaseRequest /\ req.db = "bare"
    /\ scan.class > Len(catalog)
    /\ last.value = {}

\* C8: over an unmodified relation or database and for one mixer, two
\* completed scans with the same arguments return the same value, and
\* within a scan two index entries with the same bytes, position and
\* descriptor have the same fingerprint.
C8_Deterministic ==
    /\ (last.set /\ prev.set) => last.value = prev.value
    /\ \A e1 \in scan.fps, e2 \in scan.fps :
          e1.span = e2.span => e1.fp = e2.fp

\* the second scan has completed with a value other than 0, after folding
\* two entries with the same span in
C8_Witness ==
    /\ last.set /\ prev.set
    /\ scan.pc = "done" /\ scan.round = MaxScans
    /\ last.value # {}
    /\ \E e1 \in scan.fps, e2 \in scan.fps :
          e1 # e2 /\ e1.span = e2.span /\ e1.fp = e2.fp

\* the entries a database scan has folded in for one relation
EntriesOf(relid) == {e \in scan.fps : e.relid = relid}

\* where they are and what their fingerprints are
FingerprintsOf(relid) == {<<e.blk, e.off, e.fp>> : e \in EntriesOf(relid)}

\* C11: in a completed database scan, two relations with the same non-empty
\* collection of entry fingerprints contribute different 64-bit values,
\* whatever the number of their entries.
C11_SaltSeparatesContainers ==
    (IsDatabaseRequest /\ scan.pc = "done")
        => \A r1 \in {e.relid : e \in scan.fps},
              r2 \in {e.relid : e \in scan.fps} :
              (r1 # r2 /\ FingerprintsOf(r1) = FingerprintsOf(r2))
                  => XorOfEntries(EntriesOf(r1)) # XorOfEntries(EntriesOf(r2))

\* the relations a database scan has read or is reading
Opened == {scan.opened[i] : i \in DOMAIN scan.opened}

\* C13: a database scan never reads a relation whose persistence is not
\* permanent (unlogged or temporary) and folds no entry of one in,
\* whatever include_system and include_toast are.
C13_NonDurableExcluded ==
    IsDatabaseRequest
        => \A relid \in Opened \cup {e.relid : e \in scan.fps} :
              RelationOpen(req.db, relid).relpersistence = "p"

\* the rows of pg_class that are durable TOAST relations
DurableToast ==
    {i \in DOMAIN catalog :
        catalog[i].relkind = "t" /\ catalog[i].relpersistence = "p"}

\* C14: a completed database scan with include_toast = true has read every
\* durable TOAST relation, whatever include_system is, and one with
\* include_toast = false has read none.
C14_ToastFollowsFlag ==
    (IsDatabaseRequest /\ scan.pc = "done")
        => \A i \in DurableToast :
              req.include_toast <=> catalog[i].oid \in Opened

\* C15: pg_database_checksum called by a role that is not a superuser fails
\* with the insufficient-privilege error: no relation is read, nothing is
\* mixed or folded in, and no checksum is returned.
C15_SuperuserRequired ==
    (req.fn = "pg_database_checksum" /\ ~req.superuser)
        => /\ scan.pc \in {"idle", "error"}
           /\ scan.pc = "error" => scan.error = "insufficient_privilege"
           /\ scan.opened = <<>> /\ scan.fps = {} /\ mixMemo = {}
           /\ ~last.set

\* the last call of a role that is not a superuser has failed
C15_Witness ==
    /\ req.fn = "pg_database_checksum" /\ ~req.superuser
    /\ req.db = "full"
    /\ scan.pc = "error" /\ scan.error = "insufficient_privilege"
    /\ scan.round = MaxScans

\* the callbacks made for the row of pg_class at position i
CallbacksFor(i) ==
    {k \in DOMAIN scan.callbacks : scan.callbacks[k].class = i}

\* the entries of the relations at the positions up to i
EntriesUpTo(i) ==
    {e \in scan.fps : \E j \in 1 .. i : catalog[j].oid = e.relid}

\* C20: with a callback there is exactly one call for each row of
\* pg_class that passes the inclusion filters and that the scan is done
\* with, made when all entries of the relation are folded in and before the
\* next row is taken; there is none for a row the inclusion filters remove,
\* none for the relation being read, and none at all without a callback.
C20_CallbackAfterEachContainer ==
    IsDatabaseRequest
        => /\ ~req.callback => scan.callbacks = <<>>
           /\ req.callback =>
                \A i \in DOMAIN catalog :
                   IF /\ i < scan.class
                      /\ ~ClassRowSkipped(catalog[i], req.include_system,
                                          req.include_toast)
                   THEN /\ Cardinality(CallbacksFor(i)) = 1
                        /\ \A k \in CallbacksFor(i) :
                             /\ scan.callbacks[k].checksum
                                   = XorOfEntries(EntriesUpTo(i))
                             /\ scan.callbacks[k].n_tuples
                                   = Cardinality(EntriesUpTo(i))
                             /\ catalog[i].oid \in Opened
                                   => scan.callbacks[k].current_relid
                                         = catalog[i].oid
                             /\ (/\ catalog[i].oid \in Opened
                                 /\ catalog[i].relkind # "i")
                                   => {Tid(e.blk, e.off) :
                                          e \in EntriesOf(catalog[i].oid)}
                                        = catalog[i].visible
                   ELSE CallbacksFor(i) = {}

\* a completed scan of the full database with a callback: relations were
\* read and rows were removed by the filters
C20_Witness ==
    /\ IsDatabaseRequest /\ req.callback /\ req.db = "full"
    /\ scan.pc = "done"
    /\ Len(scan.opened) >= 4
    /\ Len(scan.callbacks) >= Len(scan.opened)
    /\ \E i \in DOMAIN catalog :
          ClassRowSkipped(catalog[i], req.include_system, req.include_toast)

\* C18: the aggregate pg_checksum_table returns for a table with a visible
\* row, and pg_checksum_index for an index with a live entry, is neither 0
\* nor 0xFFFFFFFF.
C18_NonEmptyAggregateIsValid ==
    (/\ req.fn \in {"pg_checksum_table", "pg_checksum_index"}
     /\ scan.pc = "done" /\ ~NothingToFold)
        => (last.value # Zero32 /\ last.value # CHECKSUM_NULL)

\* C16: a call of pg_checksum_table or pg_checksum_index by a role
\* without SELECT privilege on the relation raises an error and returns
\* no checksum
C16_SelectPrivilegeRequired ==
    (req.fn \in {"pg_checksum_table", "pg_checksum_index"}
     /\ ~req.select_priv)
    => ~last.set

\* the index entries a scan has folded in, with the relation they are of
IndexEntries ==
    {e \in scan.fps : RelationOpen(req.db, e.relid).relkind = "i"}

\* the mixer's answer for an entry a scan has folded in
AnswerFor(e) == CHOOSE m \in MixAnswers(mixMemo, e.span) : TRUE

\* C24: the fingerprint of an entry of a B-tree index has the heap TID
\* the entry points to XORed in (block number, offset shifted by 16);
\* the fingerprint of an entry of another kind of index has not
C24_HeapTidBoundForBtree ==
    \A e \in IndexEntries :
        LET rel == RelationOpen(req.db, e.relid)
            itup == rel.pages[e.blk].items[e.off].itup
            bound == Xor(Xor(AnswerFor(e), U32(itup.t_tid.blk)),
                         Shl32(U32(itup.t_tid.off), 16))
        IN  e.fp = IndexTupleRemap(IF rel.relam = BTREE_AM_OID
                                   THEN bound ELSE AnswerFor(e),
                                   e.off, IndexTupleSize(itup))

---------------------------------------------------------------------------
(* Properties of a scan with concurrent writers, checked under            *)
(* SpecConcurrent                                                         *)

\* the previous scan ran with no writer beside it, and the last one
\* started from the database the previous one saw
SameSnapshotAsQuietScan ==
    /\ prev.set /\ last.set
    /\ prev.began = prev.writes
    /\ last.began = prev.writes

\* C12: a database scan returns what a scan of the same snapshot with no
\* concurrent writer returns, whatever the writers do while it runs
C12_SnapshotIsolation ==
    SameSnapshotAsQuietScan => last.value = prev.value

---------------------------------------------------------------------------
(* Properties of the index aggregate under update and restore, checked    *)
(* under SpecRestore                                                      *)

\* the statements run between the previous aggregate and the last one
WritesBetween ==
    [i \in 1 .. Len(last.writes) - Len(prev.writes) |->
        last.writes[Len(prev.writes) + i].op]

\* the original aggregate, a valid one, and the one computed next
OriginalAndRecomputed ==
    /\ prev.set /\ last.set
    /\ prev.writes = <<>>
    /\ prev.value # EmptyAggregate

\* C17: the index aggregate recomputed after the update differs from the
\* original one, and recomputed after the restore it equals the original
C17_UpdateThenRestore ==
    /\ (OriginalAndRecomputed /\ WritesBetween = <<"update">>)
       => last.value # prev.value
    /\ (OriginalAndRecomputed /\ WritesBetween = <<"update", "restore">>)
       => last.value = prev.value

---------------------------------------------------------------------------
(* Properties of index aggregates with entries that are not live, checked *)
(* under SpecMixed                                                        *)

\* the places of the entries in use and not dead on initialised pages
LivePlaces ==
    LET rel == catalog[1]
        blocks == IF req.fn = "pg_index_page_checksum"
                  THEN {rel.nblocks - 1} ELSE 0 .. rel.nblocks - 1
    IN  {t \in [blk : blocks, off : 1 .. 3] :
            /\ ~rel.pages[t.blk].new
            /\ t.off <= Len(rel.pages[t.blk].items)
            /\ rel.pages[t.blk].items[t.off].lp_flags = "LP_NORMAL"}

\* C25: an index page or index aggregate is the XOR of the fingerprints
\* of exactly the live entries, which are also what the entry counter
\* counts; whatever is written over the other entries and into new pages,
\* the next aggregate is the same
C25_OnlyLiveEntriesFolded ==
    /\ scan.pc = "done"
       => /\ {Tid(e.blk, e.off) : e \in scan.fps} = LivePlaces
          /\ scan.n_tuples = Cardinality(LivePlaces)
          /\ last.value = XorOfEntries(scan.fps)
    /\ (prev.set /\ last.set) => last.value = prev.value

\* two aggregates, valid and equal, with a dead entry, an unused entry or
\* the new page written over between them
C25_Witness ==
    /\ prev.set /\ last.set
    /\ req.fn = "pg_checksum_index"
    /\ prev.writes = <<>>
    /\ Len(last.began) = MaxWrites
    /\ last.value = prev.value
    /\ last.value # EmptyAggregate

---------------------------------------------------------------------------
(* Properties of the block loop, checked under SpecInterrupt *)

ScanningIndexBlocks == scan.pc \in {"index", "class_index"}

\* C21: among any 64 consecutive blocks the index scan has read, one is
\* followed by a check for interrupts
C21_InterruptCheckEvery64Blocks ==
    ScanningIndexBlocks
    => \A first \in 0 .. ManyBlocks - 64 :
           first + 64 <= scan.blkno
           => \E b \in first .. first + 63 : b \in scan.checks

---------------------------------------------------------------------------
(* Properties of the accumulation statements, checked under SpecFold *)

\* what a folded entry XORed into the checksum field
FoldDelta(e) == Xor(e.before, e.after)

\* C22: in the database aggregate an index entry and a row entry with the
\* same fingerprint and the same relation id contribute different values
C22_IndexAndRowContributionsDiffer ==
    \A i \in DOMAIN call.log : \A j \in DOMAIN call.log :
        (/\ call.log[i].stmt = "database_row"
         /\ call.log[j].stmt = "database_index"
         /\ call.log[i].fp = call.log[j].fp
         /\ call.log[i].relid = call.log[j].relid)
        => FoldDelta(call.log[i]) # FoldDelta(call.log[j])

SameEntryTwice(i) ==
    /\ i \in DOMAIN call.log /\ i + 1 \in DOMAIN call.log
    /\ call.log[i].stmt = call.log[i + 1].stmt
    /\ call.log[i].fp = call.log[i + 1].fp
    /\ call.log[i].relid = call.log[i + 1].relid

\* C26: folding the same entry in twice brings the checksum field back
\* to what it was before the first of the two, in the 32-bit and in the
\* 64-bit aggregate, and the entry counter (where the code keeps one)
\* has grown by two
C26_TwiceCancels ==
    \A i \in 1 .. MaxFolds :
        SameEntryTwice(i)
        => /\ call.log[i + 1].after = call.log[i].before
           /\ call.log[i].counted
              => call.log[i + 1].n_after = call.log[i].n_before + 2

\* the same entry folded twice into a non-zero aggregate, in each width
C26_Witness ==
    /\ SameEntryTwice(1)
    /\ call.log[1].counted
    /\ call.log[1].before # EmptyAggregate
    /\ call.log[1].fp \notin {Zero32}
    /\ call.log[1].after # call.log[1].before
    /\ call.log[2].after = call.log[1].before
    /\ call.log[2].n_after = call.log[1].n_before + 2

---------------------------------------------------------------------------
(* Properties of the column of a stored row, checked under SpecRow *)

\* the value a row version holds in a column: null, or its bytes
AttrOf(tuple, attnum) ==
    IF attnum > tuple.t_natts \/ tuple.atts[attnum].isnull
    THEN <<"null">>
    ELSE <<"value", tuple.atts[attnum].bytes>>

ValidAttnum == req.attnum \in 1 .. Len(RowDesc)

\* C19: two versions of a row that hold the same value in the column
\* asked for get the same pg_tuple_column_checksum result, wherever they
\* are stored, whatever their stamps and whatever the other column holds
C19_ColumnFingerprintFrame ==
    \A i \in DOMAIN call.results : \A j \in DOMAIN call.results :
        (ValidAttnum
         /\ AttrOf(req.rows[i], req.attnum) = AttrOf(req.rows[j], req.attnum))
        => /\ call.results[i].error = "none"
           /\ call.results[i].ret = call.results[j].ret

\* two versions at different places with different stamps and another
\* value in the other column, the column asked for non-null and unchanged
C19_Witness ==
    \E i \in DOMAIN call.results : \E j \in DOMAIN call.results :
        /\ ValidAttnum
        /\ call.results[i].mixed
        /\ AttrOf(req.rows[i], req.attnum) = AttrOf(req.rows[j], req.attnum)
        /\ req.rows[i].t_ctid # req.rows[j].t_ctid
        /\ req.rows[i].t_xmin # req.rows[j].t_xmin
        /\ req.rows[i].t_xmax # req.rows[j].t_xmax
        /\ AttrOf(req.rows[i], 3 - req.attnum)
               # AttrOf(req.rows[j], 3 - req.attnum)
        /\ call.results[i].ret = call.results[j].ret

----------------------------------------------------------------------------
(* Properties of the database scan's handling of a relation kind it does  *)
(* not read (SpecScan)                                                     *)

\* the row of pg_class the loop is at is handed to
\* process_relation_for_checksum and is not a regular table, index,
\* materialized view, sequence or TOAST table
AtUnsupportedKind ==
    /\ scan.pc = "class"
    /\ scan.class <= Len(catalog)
    /\ ~ClassRowSkipped(catalog[scan.class], req.include_system,
                        req.include_toast)
    /\ catalog[scan.class].relkind \notin {"r", "i", "m", "S", "t"}

\* C27: a relation of an unsupported kind is skipped, not failed: the step
\* over it raises no error, opens the relation and closes it again, and
\* leaves the checksum, the entry count, the page count and the current
\* relation id and kind as they were
C27_UnsupportedKindSkipped ==
    [][(AtUnsupportedKind /\ DatabaseNextClass) =>
          LET lock == RelationLock(catalog[scan.class].oid)
          IN  /\ scan'.pc = "class" /\ scan'.error = "none"
              /\ scan'.acquired = scan.acquired (+) SetToBag({lock})
              /\ scan'.released = scan.released (+) SetToBag({lock})
              /\ scan'.acc = scan.acc
              /\ scan'.n_tuples = scan.n_tuples
              /\ scan'.n_pages = scan.n_pages
              /\ scan'.relid = scan.relid
              /\ scan'.relkind = scan.relkind]_vars

\* a database scan that has read a relation (its state holds that
\* relation's id and kind and a checksum) and has then passed a view
C27_Witness ==
    /\ scan.pc = "class"
    /\ scan.class > 1
    /\ catalog[scan.class - 1].relkind = "v"
    /\ BagIn(RelationLock(catalog[scan.class - 1].oid), scan.released)
    /\ scan.relid # 0 /\ scan.relkind # ""
    /\ scan.acc # EmptyAggregate

----------------------------------------------------------------------------
(* Properties of the locks of the SQL-callable functions, checked under   *)
(* SpecLocks                                                               *)

\* C30: when a SQL-callable checksum function has returned normally, each
\* buffer lock and each relation lock it acquired has been released
\* exactly once, and it has released no lock it did not acquire.
C30_LocksPairedOnReturn ==
    scan.pc = "done" => scan.released = scan.acquired

====
